---- MODULE Spec2Model ----
(***************************************************************************)
(* Model of the real-time synchronisation path of collab-docs-service:     *)
(* the WebSocket session handler (modules/documents/websocket_router.py),  *)
(* the handshake dependency (modules/documents/dependencies.py), the       *)
(* connection registry (core/websockets.py), the Redis Pub/Sub bridge      *)
(* (core/redis_pubsub.py) and the fetch-merge-save fold                    *)
(* (modules/documents/services.py); further the text of a YDoc as          *)
(* modules/documents/crdt.py uses it, e-mail verification                  *)
(* (modules/auth/services.py) and the REST document routes                 *)
(* (modules/documents/router.py, dependencies.py).                         *)
(*                                                                         *)
(* Every `await` of the source is a step boundary: the code between two    *)
(* awaits of one coroutine is one atomic action.                           *)
(***************************************************************************)
EXTENDS Integers, Sequences, FiniteSets, TLC

\* ------------------------------------------------------------------ bounds

\* Total number of client frames the sessions read (all sessions together).
MaxMsgs == 2

\* ------------------------------------------------------------- the universe

\* Server processes.  Each has its own module globals (registries, bridge).
Replicas == {"R1", "R2"}

\* WebSocket objects handed to sync_document by the framework.
Sockets == {"s1", "s2", "s3"}

\* Socket objects attached to a registry directly through
\* ConnectionManager.connect, as the repository's tests do.
MockSockets == {"m1", "m2"}

AllSockets == Sockets \cup MockSockets

\* The process each socket object lives in.
ReplicaOf(x) == IF x = "s3" THEN "R2" ELSE "R1"

\* Document ids are strings, modelled as character sequences: two stored
\* documents, a well-formed id with no document, and a string that is no
\* ObjectId.
DocA == <<"a">>
DocB == <<"b">>
DocC == <<"c">>
BadId == <<"g", ":">>
DocIds == {DocA, DocB, DocC, BadId}
StoredDocs == {DocA, DocB}

\* Users of the users collection, and a user id no user has.
Users == {"owner", "editor", "viewer", "stranger", "inactive"}
UserIds == Users \cup {"ghost"}

\* CRDT items a client update can insert.
Items == {"u1", "u2"}

NoUser == "-"
NoItem == "-"
NoDoc == <<>>

\* bson.ObjectId.is_valid: hexadecimal digits only (the length is abstracted).
HexDigits == {"a", "b", "c", "d", "e", "f"}
IsValidObjectId(id) == \A i \in 1..Len(id) : id[i] \in HexDigits

\* UserInDB.is_active
IsActive(u) == u # "inactive"

\* DocumentInDB.owner_id
OwnerOf(d) == "owner"

\* DocumentInDB.collaborators: user_id -> role
CollaboratorsOf(d) == [u \in {"editor", "viewer"} |-> u]

\* ------------------------------------------------------------------ tokens

\* The `token` query parameter: absent, or a JWT with a subject and a
\* signature that verifies or not.
NoToken == [present |-> FALSE, sub |-> NoUser, sig |-> FALSE]
Tokens == {NoToken} \cup [present : {TRUE}, sub : UserIds, sig : BOOLEAN]

\* decode_access_token: the subject of a token that verifies, else None.
DecodeAccessToken(t) == IF t.sig THEN t.sub ELSE NoUser

\* ------------------------------------------------------------------- CRDT

\* CRDTDocumentManager.__init__: an empty YDoc, with initial_state applied
\* when it is truthy.  A YDoc is the set of items it holds.
CRDTDocumentManager(has_state, state) == IF has_state THEN state ELSE {}

\* CRDTDocumentManager.apply_update (Y.apply_update): merge the items.
ApplyUpdate(doc, update) == doc \cup update

\* CRDTDocumentManager.get_state (Y.encode_state_as_update)
GetState(doc) == doc

\* ------------------------------------------------------------- channels

\* RedisPubSubManager.publish / subscribe: f"doc:{document_id}"
ChannelOf(d) == <<"d", "o", "c", ":">> \o d

\* str.split(":", 1)[1]: what follows the first ":".
FirstColon(ch) == CHOOSE i \in 1..Len(ch) :
                     ch[i] = ":" /\ \A j \in 1..(i - 1) : ch[j] # ":"

\* RedisPubSubManager._listen: channel.split(":", 1)[1]
DocOfChannel(ch) == SubSeq(ch, FirstColon(ch) + 1, Len(ch))

\* ----------------------------------------------------------- envelopes

Garbage == "garbage"

\* A JSON envelope.  for_doc is not on the wire: it records the document the
\* envelope was produced for.
Env(type, update, user_id, for_doc, state) ==
    [type |-> type, update |-> update, user_id |-> user_id,
     for_doc |-> for_doc, state |-> state]

NoEnv == Env("-", NoItem, NoUser, NoDoc, {})

\* A payload on a channel that is no JSON text.  publish() writes
\* json.dumps(message), so such a payload comes from another Redis client.
NotJson == Env("not json", NoItem, NoUser, NoDoc, {})

\* json.loads(message["data"]) returns: the payload is the json.dumps of an
\* envelope, and the envelope is what it returns; on any other text it
\* raises JSONDecodeError.
IsJson(payload) == payload # NotJson

\* What a client can send as one text frame that parses to a JSON object.
ClientEnvelopes ==
    {Env("update", u, NoUser, NoDoc, {}) : u \in Items \cup {NoItem, Garbage}}
    \cup {Env("awareness", u, NoUser, NoDoc, {}) : u \in {"cursor", NoItem}}
    \cup {Env("presence", NoItem, NoUser, NoDoc, {}),
          Env("ping", NoItem, NoUser, NoDoc, {})}

\* The user ids a client writes into the user_id and username fields of its
\* own envelope: ids of users other than the ones the sessions belong to.
ForgedIds == {"editor", "stranger"}

\* Update and presence envelopes that arrive with attribution fields set.
AttributedEnvelopes ==
    {Env("update", "u1", u, NoDoc, {}) : u \in ForgedIds}
    \cup {Env("presence", NoItem, u, NoDoc, {}) : u \in ForgedIds}

\* Every JSON object a client sends here.
AnyEnvelope == ClientEnvelopes \cup AttributedEnvelopes

\* ------------------------------------------------------------ registries

\* `manager = ConnectionManager()` is a module global of core/websockets.py.
\* The file is imported under two module names, and each import executes
\* it: a process holds one registry per module name.
ImportPaths == {"core.websockets", "src.core.websockets"}
Managers == Replicas \X ImportPaths

\* A router bound to the registry the listener broadcasts on.
RouterManagerOfListener(r) == <<r, "src.core.websockets">>

\* websocket_router.py: from core.websockets import manager
RouterManager(r) == <<r, "core.websockets">>

\* The listener bound to the registry the router uses.
ListenerManagerOfRouter(r) == RouterManager(r)

\* redis_pubsub.py: from src.core.websockets import manager
ListenerManager(r) == <<r, "src.core.websockets">>

\* ConnectionManager.connect, after websocket.accept() returned.
RegConnect(reg, d, ws) ==
    IF d \in DOMAIN reg
    THEN [reg EXCEPT ![d] = @ \cup {ws}]
    ELSE [k \in DOMAIN reg \cup {d} |-> IF k = d THEN {ws} ELSE reg[k]]

\* A disconnect that leaves the socket in its set.
RegDisconnectKeeps(reg, d, ws) == reg

\* A disconnect that drops the document's whole set.
RegDisconnectAll(reg, d, ws) == [k \in DOMAIN reg \ {d} |-> reg[k]]

\* A disconnect that discards the socket and keeps the key of an empty set.
RegDisconnectLeavesKey(reg, d, ws) ==
    IF d \in DOMAIN reg THEN [reg EXCEPT ![d] = @ \ {ws}] ELSE reg

\* A disconnect without the membership test on the document: it makes the
\* key of a document it has no set for.
RegDisconnectCreatesKey(reg, d, ws) ==
    IF d \in DOMAIN reg
    THEN IF reg[d] \ {ws} = {}
         THEN [k \in DOMAIN reg \ {d} |-> reg[k]]
         ELSE [reg EXCEPT ![d] = @ \ {ws}]
    ELSE [k \in DOMAIN reg \cup {d} |-> IF k = d THEN {} ELSE reg[k]]

\* ConnectionManager.disconnect
RegDisconnect(reg, d, ws) ==
    IF d \in DOMAIN reg
    THEN IF reg[d] \ {ws} = {}
         THEN [k \in DOMAIN reg \ {d} |-> reg[k]]
         ELSE [reg EXCEPT ![d] = @ \ {ws}]
    ELSE reg

\* A broadcast that takes the sockets of every document.
RegSnapshotOfAll(reg, d) == UNION {reg[k] : k \in DOMAIN reg}

\* ConnectionManager.broadcast: list(self.active_connections[document_id])
RegSnapshot(reg, d) == IF d \in DOMAIN reg THEN reg[d] ELSE {}

\* ------------------------------------------------------------------ state

VARIABLES
    store,               \* documents collection: id -> stored document
    pc,                  \* per session socket: where sync_document stands
    sess,                \* per session socket: the handler's locals
    client_gone,         \* per socket: the peer has gone away
    closed,              \* per socket: close code sent by the server, 0 if none
    sent,                \* per socket: frames the server sent on it
    active_connections,  \* per registry: ConnectionManager.active_connections
    subscribed,          \* per replica: channels of its pubsub connection
    inbox,               \* per replica: messages its pubsub connection holds
    bcast,               \* per replica: the listener's running broadcast
    published,           \* envelopes given to client.publish
    folded,              \* per replica, per document: updates whose fold wrote
    nmsgs,               \* client frames read so far
    attached,            \* per socket: documents it was ever attached under
    due,                 \* per session socket: folded updates published for
                         \* its document while it was joined
    hist,                \* per session socket: what its handler has done
    ydocs,               \* per CRDTDocumentManager of the merge test: its YDoc
    auth,                \* identity_verification_sessions, users and the
                         \* verify-email calls in progress
    rest                 \* the document's collaborators list and the last
                         \* REST response

vars == <<store, pc, sess, client_gone, closed, sent, active_connections,
          subscribed, inbox, bcast, published, folded, nmsgs, attached, due, hist, ydocs, auth, rest>>

\* create_document: state = from_text(content).get_state(), never None.
CreatedDoc == [exists |-> TRUE, has_state |-> TRUE, state |-> {}, content |-> {}]

\* A stored document without the state field (DocumentInDB.state = None).
StatelessDoc == [exists |-> TRUE, has_state |-> FALSE, state |-> {}, content |-> {}]

NoStoredDoc == [exists |-> FALSE, has_state |-> FALSE, state |-> {}, content |-> {}]

\* token, document_id and found are the handshake's inputs (the query
\* parameter, the path parameter, whether the document was there).
NoSess == [token |-> NoToken, document_id |-> NoDoc, found |-> FALSE,
           user |-> NoUser, doc |-> NoDoc, has_state |-> FALSE, state |-> {},
           msg |-> NoEnv, base |-> {}]

\* snapshot, sends and failed record what the broadcast did; the loop reads
\* pending alone.  errors counts the messages the listener raised on.
IdleBcast == [pc |-> "idle", doc |-> NoDoc, data |-> NoEnv, manager |-> <<>>,
              snapshot |-> {}, pending |-> {}, failed |-> {}, sends |-> <<>>,
              errors |-> 0]

\* ------------------------------------------------- the text of a YDoc
\* The sessions above take an update as one opaque item.  The operators
\* below model what y_py does with the text type: a YDoc is a struct store,
\* the set of the items integrated so far; an item is one character with
\* the id <<client, clock>> of its insertion and the id of the item it was
\* inserted after.

\* Characters a manager inserts per test run, and the texts from_text is
\* given.
MaxInserts == 2
BaseTexts == {<<>>, <<"h">>}

\* The managers of test_crdt_merging, and the client id of each one's YDoc.
YNames == {"base", "client_a", "client_b"}
ClientId(k) == CASE k = "base" -> 0 [] k = "client_a" -> 1 [] OTHER -> 2

\* What each client types (" Alice", " Bob"), character by character.
CharOf(k) == IF k = "client_a" THEN "a" ELSE "b"

NoId == <<-1, -1>>

\* The order of two item ids in an encoded update: by client, then clock.
IdBefore(i, j) == i[1] < j[1] \/ (i[1] = j[1] /\ i[2] <= j[2])

RECURSIVE SortItems(_)
SortItems(items) ==
    IF items = {} THEN <<>>
    ELSE LET m == CHOOSE i \in items : \A j \in items : IdBefore(i.id, j.id)
         IN  <<m>> \o SortItems(items \ {m})

\* bytes: None, or an encoded update, which lists the structs per client in
\* clock order behind their count.
NoBytes == [n |-> -1, structs |-> <<>>]

\* `if initial_state:`: None and b"" are false; an encoded update is never
\* empty.
Truthy(b) == b # NoBytes

\* Decoding an update: the first n structs that follow the count.
DecodeUpdate(b) == {b.structs[i] : i \in 1..(IF b.n < 0 THEN 0 ELSE b.n)}

\* Y.encode_state_as_update(doc, vector): the structs of doc that the
\* holder of `known` lacks ({} as vector: all of them).
YEncodeStateAsUpdate(doc, known) ==
    [n |-> Cardinality(doc \ known), structs |-> SortItems(doc \ known)]

\* An apply that inserts again what the update repeats.
YApplyUpdateInsertsAgain(doc, update) ==
    doc \cup DecodeUpdate(update)
        \cup {[i EXCEPT !.id = <<i.id[1] + 10, i.id[2]>>] :
                 i \in DecodeUpdate(update) \cap doc}

\* An apply that replaces the document with the update.
YApplyUpdateReplaces(doc, update) == DecodeUpdate(update)

\* Y.apply_update(doc, update): integrate the structs not yet held.
YApplyUpdate(doc, update) == doc \cup DecodeUpdate(update)

\* The items of the text in document order: an item follows the item it
\* was inserted after, and items inserted after the same item stand in the
\* order of their ids.
RECURSIVE YItemsAfter(_, _)
RECURSIVE YSiblings(_, _)
YSiblings(doc, kids) ==
    IF kids = {} THEN <<>>
    ELSE LET m == CHOOSE i \in kids : \A j \in kids : IdBefore(i.id, j.id)
         IN  <<m>> \o YItemsAfter(doc, m.id) \o YSiblings(doc, kids \ {m})
YItemsAfter(doc, left) == YSiblings(doc, {i \in doc : i.origin = left})

\* str(text)
YStr(doc) == LET items == YItemsAfter(doc, NoId)
             IN  [i \in 1..Len(items) |-> items[i].ch]

\* text.insert(tr, len(text), ch) / text.extend(tr, ch) by `client`: a new
\* item behind the last one.
YInsertAtEnd(doc, client, ch) ==
    LET items == YItemsAfter(doc, NoId)
        clock == Cardinality({i \in doc : i.id[1] = client})
        left  == IF items = <<>> THEN NoId ELSE items[Len(items)].id
    IN  doc \cup {[id |-> <<client, clock>>, origin |-> left, ch |-> ch]}

RECURSIVE YExtend(_, _, _)
YExtend(doc, client, text) ==
    IF text = <<>> THEN doc
    ELSE YExtend(YInsertAtEnd(doc, client, Head(text)), client, Tail(text))

\* A constructor that drops initial_state.
NewManagerEmpty(initial_state) == {}

\* CRDTDocumentManager.__init__ on the text level.
NewManager(initial_state) ==
    IF Truthy(initial_state) THEN YApplyUpdate({}, initial_state) ELSE {}

\* CRDTDocumentManager.apply_update, get_state, get_content
ManagerApplyUpdate(doc, update) == YApplyUpdate(doc, update)
ManagerGetState(doc) == YEncodeStateAsUpdate(doc, {})
ManagerGetContent(doc) == YStr(doc)

\* CRDTDocumentManager.from_text
FromText(client, text) == YExtend(NewManager(NoBytes), client, text)

\* The state and content apply_crdt_update stores for a stored state and an
\* update.
PersistedState(state, update) ==
    ManagerGetState(ManagerApplyUpdate(NewManager(state), update))
PersistedContent(state, update) ==
    ManagerGetContent(ManagerApplyUpdate(NewManager(state), update))

NoYDocs == [base_state |-> NoBytes, docs |-> [k \in YNames |-> {}]]

\* ------------------------------------------------ email verification
\* One e-mail address: its identity_verification_sessions document, the
\* users it has, and the verify-email requests in progress for it.

\* verify-email requests begun and registrations accepted per run.
MaxCalls == 5
MaxRegistrations == 2

\* `session.attempts >= 3`
MaxAttempts == 3

\* Requests run concurrently: each caller has one request at a time.
Callers == {"c1", "c2"}

\* initiate_registration: the code is a fixed string.
OtpCode == "123456"
Otps == {OtpCode, "000000"}

\* IdentityVerificationSession: attempts, and whether expires_at is past.
NoSession == [exists |-> FALSE, attempts |-> 0, expired |-> FALSE]

\* A verify_email call: the otp it was given, the document its find_one
\* returned, how it ended.  late: three calls with a wrong otp had returned
\* for the pending registration when its find_one ran.
NoCall == [pc |-> "idle", otp |-> "-", doc |-> NoSession, late |-> FALSE,
           result |-> "none"]

\* wrong_made: the calls with a wrong otp that have returned since the
\* pending registration was stored.
NoAuth == [session |-> NoSession, users |-> 0, reg |-> "idle",
           registrations |-> 0, wrong_made |-> 0, ncalls |-> 0,
           calls |-> [c \in Callers |-> NoCall]]

\* ------------------------------------------------------- REST documents
\* One document of the documents collection as the REST routes see it.

\* Users with a valid token of an active account.
RestUsers == {"owner", "editor", "viewer", "stranger"}

\* CollaboratorUpdate.role is a free string; these are the ones sent.
RoleInputs == {"editor", "viewer"}

NoResponse == [user |-> NoUser, op |-> "none", role |-> "none", status |-> 0]

\* collaborators: user_id -> role, "none" for a user the list lacks.
\* content: the number of updates written, modulo 2.  last: the last
\* response, with the role the requester had when the request arrived.
NoRest == [exists |-> FALSE,
           collaborators |-> [u \in RestUsers |-> "none"],
           content |-> 0, last |-> NoResponse]

\* What a handler has done so far.  fold_failed: a fold of one of its
\* updates raised.  resubscribed: it issued its subscribe while the replica
\* was subscribed to the channel.  read: the kinds of frame it has handled,
\* of "awareness" (with an update field), "presence" and "malformed" (a
\* frame that is no JSON object).  exit: how it left
\* the receive loop.  detaches: its calls of manager.disconnect that removed
\* the socket.  left_behind: the sockets its document kept in the registry
\* when it detached, -1 before.  unsubs: the unsubscribes it issued.
\* raced: when it attached, a session of its replica had decided to
\* unsubscribe from its document's channel and had not done so yet.
NoHist == [fold_failed |-> FALSE, resubscribed |-> FALSE, read |-> {},
           exit |-> "none", detaches |-> 0, left_behind |-> -1, unsubs |-> 0,
           raced |-> FALSE]

\* The sessions, registries and Pub/Sub of a freshly started service.
InitService ==
    /\ pc = [s \in Sockets |-> "init"]
    /\ sess = [s \in Sockets |-> NoSess]
    /\ client_gone = [x \in AllSockets |-> FALSE]
    /\ closed = [x \in AllSockets |-> 0]
    /\ sent = [x \in AllSockets |-> <<>>]
    /\ active_connections = [m \in Managers |-> <<>>]
    /\ subscribed = [r \in Replicas |-> {}]
    /\ inbox = [r \in Replicas |-> <<>>]
    /\ bcast = [r \in Replicas |-> IdleBcast]
    /\ published = {}
    /\ folded = [r \in Replicas |-> [d \in DocIds |-> {}]]
    /\ nmsgs = 0
    /\ attached = [x \in AllSockets |-> {}]
    /\ due = [s \in Sockets |-> {}]
    /\ hist = [s \in Sockets |-> NoHist]

\* Everything but the documents collection.
InitRest ==
    /\ InitService
    /\ ydocs = NoYDocs
    /\ auth = NoAuth
    /\ rest = NoRest

\* One stored document, created by create_document; no session has
\* dialled yet.
Init ==
    /\ store = [d \in DocIds |-> IF d = DocA THEN CreatedDoc ELSE NoStoredDoc]
    /\ InitRest

\* ----------------------------------------------------------- lookups

\* get_user_by_id: the user with that id, None when there is none.
GetUserById(uid) == IF uid \in Users THEN uid ELSE NoUser

\* get_document_by_id: None for an invalid id or a missing document.
GetDocumentById(st, d) ==
    IF IsValidObjectId(d) /\ st[d].exists THEN st[d] ELSE NoStoredDoc

\* get_ws_authenticated_doc: is_owner or is_collaborator
HasAccess(u, d) == OwnerOf(d) = u \/ u \in DOMAIN CollaboratorsOf(d)

\* The handshake with the document looked up before the user.
WsCloseCodeDocFirst(token, d, st) ==
    IF ~token.present THEN 4001
    ELSE IF DecodeAccessToken(token) = NoUser THEN 4002
    ELSE IF ~GetDocumentById(st, d).exists THEN 4004
    ELSE IF GetUserById(DecodeAccessToken(token)) = NoUser
            \/ ~IsActive(GetUserById(DecodeAccessToken(token))) THEN 4003
    ELSE IF ~HasAccess(GetUserById(DecodeAccessToken(token)), d) THEN 4005
    ELSE 0

\* get_ws_authenticated_doc: the close code of the first failing check,
\* 0 when the handshake passes every check.
WsCloseCode(token, d, st) ==
    IF ~token.present THEN 4001
    ELSE IF DecodeAccessToken(token) = NoUser THEN 4002
    ELSE IF GetUserById(DecodeAccessToken(token)) = NoUser
            \/ ~IsActive(GetUserById(DecodeAccessToken(token))) THEN 4003
    ELSE IF ~GetDocumentById(st, d).exists THEN 4004
    ELSE IF ~HasAccess(GetUserById(DecodeAccessToken(token)), d) THEN 4005
    ELSE 0

\* A send on socket x raises: the peer is gone or the server closed it.
SendFails(x) == client_gone[x] \/ closed[x] # 0

Joined(s) == pc[s] \in {"recv", "fold_read", "fold_write", "publish"}

\* --------------------------------------------------------- the session

\* The handshake: get_ws_authenticated_doc, then sync_document up to
\* `await manager.connect`.  A failed check closes the socket with its code
\* and the handler returns.
Dial(s, token, d) ==
    /\ pc[s] = "init"
    /\ LET code == WsCloseCode(token, d, store)
           doc == GetDocumentById(store, d)
           inputs == [NoSess EXCEPT !.token = token, !.document_id = d,
                                    !.found = doc.exists]
       IN IF code # 0
          THEN /\ closed' = [closed EXCEPT ![s] = code]
               /\ pc' = [pc EXCEPT ![s] = "rejected"]
               /\ sess' = [sess EXCEPT ![s] = inputs]
          ELSE /\ closed' = closed
               /\ pc' = [pc EXCEPT ![s] = "accepted"]
               /\ sess' = [sess EXCEPT ![s] =
                    [inputs EXCEPT !.user = GetUserById(DecodeAccessToken(token)),
                                   !.doc = d,
                                   !.has_state = doc.has_state,
                                   !.state = doc.state]]
    /\ UNCHANGED <<store, client_gone, sent, active_connections, subscribed,
                   inbox, bcast, published, folded, nmsgs, attached, due, hist, ydocs, auth, rest>>

\* manager.connect(document_id, websocket): accept, then register.
Connect(s) ==
    /\ pc[s] = "accepted"
    /\ active_connections' =
         [active_connections EXCEPT ![RouterManager(ReplicaOf(s))] =
            RegConnect(@, sess[s].doc, s)]
    /\ attached' = [attached EXCEPT ![s] = @ \cup {sess[s].doc}]
    /\ pc' = [pc EXCEPT ![s] = "attached"]
    /\ hist' = [hist EXCEPT ![s].raced =
                  \E x \in Sockets \ {s} :
                      /\ pc[x] = "unsub"
                      /\ ReplicaOf(x) = ReplicaOf(s)
                      /\ sess[x].doc = sess[s].doc]
    /\ UNCHANGED <<store, sess, client_gone, closed, sent, subscribed, inbox,
                   bcast, published, folded, nmsgs, due, ydocs, auth, rest>>

\* redis_sync_manager.subscribe(document_id)
Subscribe(s) ==
    /\ pc[s] = "attached"
    /\ subscribed' = [subscribed EXCEPT ![ReplicaOf(s)] =
                        @ \cup {ChannelOf(sess[s].doc)}]
    /\ pc' = [pc EXCEPT ![s] = "subscribed"]
    /\ hist' = [hist EXCEPT ![s].resubscribed =
                  ChannelOf(sess[s].doc) \in subscribed[ReplicaOf(s)]]
    /\ UNCHANGED <<store, sess, client_gone, closed, sent, active_connections,
                   inbox, bcast, published, folded, nmsgs, attached, due,
                   ydocs, auth, rest>>

\* `if doc.state: await websocket.send_json({"type": "sync_state", ...})`.
\* The send is outside the try block: when it raises, the handler ends
\* without any cleanup.
SendSyncState(s) ==
    /\ pc[s] = "subscribed"
    /\ IF sess[s].has_state
       THEN IF SendFails(s)
            THEN /\ pc' = [pc EXCEPT ![s] = "crashed"]
                 /\ sent' = sent
            ELSE /\ pc' = [pc EXCEPT ![s] = "recv"]
                 /\ sent' = [sent EXCEPT ![s] =
                      Append(@, Env("sync_state", NoItem, NoUser,
                                    sess[s].doc, sess[s].state))]
       ELSE /\ pc' = [pc EXCEPT ![s] = "recv"]
            /\ sent' = sent
    /\ UNCHANGED <<store, sess, client_gone, closed, active_connections,
                   subscribed, inbox, bcast, published, folded, nmsgs, attached, due, hist, ydocs, auth, rest>>

\* The peer of a socket goes away.  A session notices at its next send or
\* receive only, so the step is taken where one of them is next.
ClientDrop(x) ==
    /\ ~client_gone[x]
    /\ IF x \in Sockets
       THEN pc[x] \in {"subscribed", "recv"}
       ELSE attached[x] # {}
    /\ client_gone' = [client_gone EXCEPT ![x] = TRUE]
    /\ UNCHANGED <<store, pc, sess, closed, sent, active_connections, subscribed,
                   inbox, bcast, published, folded, nmsgs, attached, due, hist, ydocs, auth, rest>>

\* CRDTDocumentManager.get_content: the text of the document.  The items
\* are linearised in the CRDT's total order; the set stands for that text.
GetContent(doc) == doc

\* An enrichment that keeps the attribution the client supplied.
ProcessSyncMessageSetDefault(user, data) ==
    IF data.user_id = NoUser THEN [data EXCEPT !.user_id = user] ELSE data

\* process_sync_message: user_id and username are set from the session's
\* user, whatever the client put there.
ProcessSyncMessage(user, data) == [data EXCEPT !.user_id = user]

\* A loop that reads the next frame while the fold or the publish of the
\* frame before it is still awaited.
CanReceiveWhileFolding(s) ==
    /\ pc[s] \in {"recv", "fold_read", "fold_write", "publish"}
    /\ ~client_gone[s]
    /\ nmsgs < MaxMsgs

\* A client frame can be read: the peer is there and the budget allows it.
CanReceive(s) == pc[s] = "recv" /\ ~client_gone[s] /\ nmsgs < MaxMsgs

\* The record of a handler that detached its socket from registry reg,
\* which became reg_after.
Detached(h, reg, reg_after, d, ws, how) ==
    [h EXCEPT !.exit = how,
              !.detaches = IF ws \in RegSnapshot(reg, d) THEN @ + 1 ELSE @,
              !.left_behind = Cardinality(RegSnapshot(reg_after, d))]

\* `except Exception`: manager.disconnect, then `await websocket.close()`.
\* kinds: what the frame that raised adds to the kinds handled.
ExceptException(s, kinds) ==
    LET m == RouterManager(ReplicaOf(s))
        reg == RegDisconnect(active_connections[m], sess[s].doc, s)
    IN /\ active_connections' = [active_connections EXCEPT ![m] = reg]
       /\ pc' = [pc EXCEPT ![s] = "closing"]
       /\ hist' = [hist EXCEPT ![s] =
            Detached([hist[s] EXCEPT !.read = @ \cup kinds],
                     active_connections[m], reg, sess[s].doc, s, "exception")]

\* The types the receive loop has a branch for.
KnownTypes == {"update", "awareness", "presence"}

\* What a frame adds to the kinds of frames a session has read, when its
\* type is none of the known ones.
OtherKind(msg) == IF msg.type \in KnownTypes THEN {} ELSE {"other"}

\* A dispatch whose last branch is an `else`: any type that is neither
\* awareness nor presence is handled as an update.
MsgTypeElseUpdate(msg) ==
    IF msg.type \in {"awareness", "presence"} THEN msg.type ELSE "update"

\* A dispatch that takes an awareness envelope for an update.
MsgTypeAwarenessAsUpdate(msg) ==
    IF msg.type = "awareness" THEN "update" ELSE msg.type

\* msg_type = message.get("type")
MsgType(msg) == msg.type

\* msg_type == "update": a missing update field skips the fold and goes on
\* to publish; bytes that do not decode raise inside the inner try
\* (`continue`); otherwise apply_crdt_update starts (its id check passes or
\* returns None, and the read is awaited).
RecvUpdate(s, msg) ==
    /\ CanReceive(s)
    /\ msg \in AnyEnvelope /\ MsgType(msg) = "update"
    /\ nmsgs' = nmsgs + 1
    /\ IF msg.update = NoItem
       THEN /\ pc' = [pc EXCEPT ![s] = "publish"]
            /\ sess' = [sess EXCEPT ![s].msg = msg]
       ELSE IF msg.update = Garbage
       THEN /\ pc' = pc
            /\ sess' = sess
       ELSE IF ~IsValidObjectId(sess[s].doc)
       THEN /\ pc' = [pc EXCEPT ![s] = "publish"]
            /\ sess' = [sess EXCEPT ![s].msg = msg]
       ELSE /\ pc' = [pc EXCEPT ![s] = "fold_read"]
            /\ sess' = [sess EXCEPT ![s].msg = msg]
    /\ hist' = [hist EXCEPT ![s].read = @ \cup OtherKind(msg)]
    /\ UNCHANGED <<store, client_gone, closed, sent, active_connections,
                   subscribed, inbox, bcast, published, folded, attached, due,
                   ydocs, auth, rest>>

\* apply_crdt_update: `await find_one`, then the merge on the state read.
\* A missing document returns None, and the caller goes on to publish.
FoldRead(s) ==
    /\ pc[s] = "fold_read"
    /\ IF store[sess[s].doc].exists
       THEN /\ sess' = [sess EXCEPT ![s].base =
                 CRDTDocumentManager(store[sess[s].doc].has_state,
                                     store[sess[s].doc].state)]
            /\ pc' = [pc EXCEPT ![s] = "fold_write"]
       ELSE /\ sess' = sess
            /\ pc' = [pc EXCEPT ![s] = "publish"]
    /\ UNCHANGED <<store, client_gone, closed, sent, active_connections,
                   subscribed, inbox, bcast, published, folded, nmsgs, attached, due, hist, ydocs, auth, rest>>

\* The state apply_crdt_update writes: the state it read, with the update.
NewState(base, update) == GetState(ApplyUpdate(base, {update}))

\* apply_crdt_update: `await find_one_and_update` with the merged state.
FoldWrite(s) ==
    /\ pc[s] = "fold_write"
    /\ LET d == sess[s].doc
           new_state == NewState(sess[s].base, sess[s].msg.update)
       IN IF store[d].exists
          THEN /\ store' = [store EXCEPT ![d].has_state = TRUE,
                                         ![d].state = new_state,
                                         ![d].content = GetContent(new_state)]
               /\ folded' = [folded EXCEPT ![ReplicaOf(s)][d] =
                                @ \cup {sess[s].msg.update}]
          ELSE /\ store' = store
               /\ folded' = folded
    /\ pc' = [pc EXCEPT ![s] = "publish"]
    /\ UNCHANGED <<sess, client_gone, closed, sent, active_connections,
                   subscribed, inbox, bcast, published, nmsgs, attached, due, hist, ydocs, auth, rest>>

\* A database call of apply_crdt_update raises: the inner `except Exception`
\* prints and continues with the next frame.
FoldError(s) ==
    /\ pc[s] \in {"fold_read", "fold_write"}
    /\ pc' = [pc EXCEPT ![s] = "recv"]
    /\ sess' = [sess EXCEPT ![s].msg = NoEnv, ![s].base = {}]
    /\ hist' = [hist EXCEPT ![s].fold_failed = TRUE]
    /\ UNCHANGED <<store, client_gone, closed, sent, active_connections,
                   subscribed, inbox, bcast, published, folded, nmsgs, attached, due,
                   ydocs, auth, rest>>

\* client.publish(channel, ...): Redis hands the message to every
\* connection subscribed to the channel at that moment.
Deliver(ch, data) ==
    [r \in Replicas |->
       IF ch \in subscribed[r]
       THEN Append(inbox[r], [channel |-> ch, data |-> data])
       ELSE inbox[r]]

\* process_sync_message, then redis_sync_manager.publish(document_id, ...).
Publish(s) ==
    /\ pc[s] = "publish"
    /\ LET data == [ProcessSyncMessage(sess[s].user, sess[s].msg)
                      EXCEPT !.for_doc = sess[s].doc]
       IN /\ published' = published \cup {data}
          /\ inbox' = Deliver(ChannelOf(sess[s].doc), data)
          /\ due' = [x \in Sockets |->
                      IF /\ Joined(x)
                         /\ sess[x].doc = sess[s].doc
                         /\ data.update \in folded[ReplicaOf(s)][sess[s].doc]
                      THEN due[x] \cup {data}
                      ELSE due[x]]
    /\ pc' = [pc EXCEPT ![s] = "recv"]
    /\ sess' = [sess EXCEPT ![s].msg = NoEnv, ![s].base = {}]
    /\ UNCHANGED <<store, client_gone, closed, sent, active_connections,
                   subscribed, bcast, folded, nmsgs, attached, hist, ydocs, auth, rest>>

\* msg_type == "awareness": with an update, manager.broadcast_except is
\* called; ConnectionManager has no such method, so AttributeError reaches
\* `except Exception`.  Without an update nothing is done.
RecvAwareness(s, msg) ==
    /\ CanReceive(s)
    /\ msg \in AnyEnvelope /\ MsgType(msg) = "awareness"
    /\ nmsgs' = nmsgs + 1
    /\ IF msg.update # NoItem
       THEN ExceptException(s, {"awareness"})
       ELSE UNCHANGED <<pc, active_connections, hist, ydocs, auth, rest>>
    /\ UNCHANGED <<store, sess, client_gone, closed, sent, subscribed, inbox,
                   bcast, published, folded, attached, due,
                   ydocs, auth, rest>>

\* msg_type == "presence": `user.avatar_url` is read; UserInDB has no such
\* field, so AttributeError reaches `except Exception` before the publish.
RecvPresence(s, msg) ==
    /\ CanReceive(s)
    /\ msg \in AnyEnvelope /\ MsgType(msg) = "presence"
    /\ nmsgs' = nmsgs + 1
    /\ ExceptException(s, {"presence"})
    /\ UNCHANGED <<store, sess, client_gone, closed, sent, subscribed, inbox,
                   bcast, published, folded, attached, due,
                   ydocs, auth, rest>>

\* Any other type: no branch matches, the loop reads the next frame.
RecvOther(s, msg) ==
    /\ CanReceive(s)
    /\ msg \in AnyEnvelope
    /\ MsgType(msg) \notin KnownTypes
    /\ nmsgs' = nmsgs + 1
    /\ hist' = [hist EXCEPT ![s].read = @ \cup OtherKind(msg)]
    /\ UNCHANGED <<store, pc, sess, client_gone, closed, sent,
                   active_connections, subscribed, inbox, bcast, published,
                   folded, attached, due, ydocs, auth, rest>>

\* A frame that is no JSON object: receive_json or message.get raises, and
\* the exception reaches `except Exception`.
RecvMalformed(s) ==
    /\ CanReceive(s)
    /\ nmsgs' = nmsgs + 1
    /\ ExceptException(s, {"malformed"})
    /\ UNCHANGED <<store, sess, client_gone, closed, sent, subscribed, inbox,
                   bcast, published, folded, attached, due,
                   ydocs, auth, rest>>

\* `except Exception`, continued: websocket.close().
Close(s) ==
    /\ pc[s] = "closing"
    /\ closed' = [closed EXCEPT ![s] = IF @ = 0 THEN 1000 ELSE @]
    /\ pc' = [pc EXCEPT ![s] = "done"]
    /\ UNCHANGED <<store, sess, client_gone, sent, active_connections,
                   subscribed, inbox, bcast, published, folded, nmsgs, attached, due, hist, ydocs, auth, rest>>

\* An unsubscribe for every disconnect.
NoKeyLeftAlways(reg, d) == TRUE

\* `if document_id not in manager.active_connections`
NoKeyLeft(reg, d) == d \notin DOMAIN reg

\* receive_json raises WebSocketDisconnect: manager.disconnect, and an
\* unsubscribe when the document has no key left in the registry.
RecvDisconnect(s) ==
    /\ pc[s] = "recv"
    /\ client_gone[s]
    /\ LET m == RouterManager(ReplicaOf(s))
           reg == RegDisconnect(active_connections[m], sess[s].doc, s)
       IN /\ active_connections' = [active_connections EXCEPT ![m] = reg]
          /\ pc' = [pc EXCEPT ![s] =
                      IF NoKeyLeft(reg, sess[s].doc) THEN "unsub" ELSE "done"]
          /\ hist' = [hist EXCEPT ![s] =
               Detached(@, active_connections[m], reg, sess[s].doc, s,
                        "disconnect")]
    /\ UNCHANGED <<store, sess, client_gone, closed, sent, subscribed, inbox,
                   bcast, published, folded, nmsgs, attached, due,
                   ydocs, auth, rest>>

\* redis_sync_manager.unsubscribe(document_id)
Unsubscribe(s) ==
    /\ pc[s] = "unsub"
    /\ subscribed' = [subscribed EXCEPT ![ReplicaOf(s)] =
                        @ \ {ChannelOf(sess[s].doc)}]
    /\ pc' = [pc EXCEPT ![s] = "done"]
    /\ hist' = [hist EXCEPT ![s].unsubs = @ + 1]
    /\ UNCHANGED <<store, sess, client_gone, closed, sent, active_connections,
                   inbox, bcast, published, folded, nmsgs, attached, due,
                   ydocs, auth, rest>>

\* ------------------------------------------------------- the listener

\* A listener that folds the update of an envelope it takes from the
\* channel into the stored state before it broadcasts.
ListenerPersistFolds(st, document_id, data) ==
    IF data.type = "update" /\ data.update \in Items /\ st[document_id].exists
    THEN [st EXCEPT ![document_id].has_state = TRUE,
                    ![document_id].state = @ \cup {data.update}]
    ELSE st

\* _listen, what handling one message does to the stored documents: the
\* only call is manager.broadcast, the database is not touched.
ListenerPersist(st, document_id, data) == st

\* A loop whose `except Exception` leaves the loop.
AfterErrorStops(b) ==
    [IdleBcast EXCEPT !.pc = "stopped", !.errors = b.errors + 1]

\* _listen, `except Exception`: asyncio.sleep(1) and the next turn of
\* `while True`.
AfterError(b) == [IdleBcast EXCEPT !.errors = b.errors + 1]

\* A loop that hands each message to a task of its own and reads on.
ListenerReadyAlways(b) == b.pc \in {"idle", "sending"}

\* _listen is one coroutine: `await manager.broadcast` has returned when
\* get_message is called again.
ListenerReady(b) == b.pc = "idle"

\* RedisPubSubManager._listen: get_message, the channel's document id,
\* json.loads, and manager.broadcast up to its first send: nothing to do
\* without a key for the document, else the list of its sockets is taken.
\* A payload json.loads raises on ends the turn in `except Exception`.
ListenerGet(r) ==
    /\ ListenerReady(bcast[r])
    /\ inbox[r] # <<>>
    /\ LET message == Head(inbox[r])
           document_id == DocOfChannel(message.channel)
           m == ListenerManager(r)
           connections == RegSnapshot(active_connections[m], document_id)
       IN bcast' = [bcast EXCEPT ![r] =
            IF ~IsJson(message.data)
            THEN AfterError(bcast[r])
            ELSE IF connections = {}
            THEN [IdleBcast EXCEPT !.errors = bcast[r].errors]
            ELSE [pc |-> "sending",
                  doc |-> document_id, data |-> message.data, manager |-> m,
                  snapshot |-> connections, pending |-> connections,
                  failed |-> {}, sends |-> [x \in connections |-> 0],
                  errors |-> bcast[r].errors]]
    /\ inbox' = [inbox EXCEPT ![r] = Tail(@)]
    /\ store' = ListenerPersist(store, DocOfChannel(Head(inbox[r]).channel),
                                Head(inbox[r]).data)
    /\ UNCHANGED <<pc, sess, client_gone, closed, sent,
                   active_connections, subscribed, published, folded, nmsgs,
                   attached, due, hist, ydocs, auth, rest>>

\* A loop that ends at the first send that raises.
StillToSendUntilFailure(pending, x, failed) ==
    IF failed THEN {} ELSE pending \ {x}

\* ConnectionManager.broadcast: the `except Exception` is inside the loop,
\* so after the send to x, failed or not, the rest of the list is still due.
StillToSend(pending, x, failed) == pending \ {x}

\* ConnectionManager.broadcast, one turn of the loop: send_text to the next
\* socket of the list; a send that raises detaches that socket.
BroadcastSend(r, x) ==
    /\ bcast[r].pc = "sending"
    /\ x \in bcast[r].pending
    /\ IF SendFails(x)
       THEN /\ active_connections' =
                 [active_connections EXCEPT ![bcast[r].manager] =
                    RegDisconnect(@, bcast[r].doc, x)]
            /\ sent' = sent
       ELSE /\ active_connections' = active_connections
            /\ sent' = [sent EXCEPT ![x] = Append(@, bcast[r].data)]
    /\ bcast' = [bcast EXCEPT
                   ![r].pending = StillToSend(@, x, SendFails(x)),
                   ![r].sends[x] = @ + 1,
                   ![r].failed = IF SendFails(x) THEN @ \cup {x} ELSE @,
                   ![r].pc = IF StillToSend(bcast[r].pending, x, SendFails(x)) = {}
                             THEN "idle" ELSE "sending"]
    /\ UNCHANGED <<store, pc, sess, client_gone, closed, subscribed, inbox,
                   published, folded, nmsgs, attached, due, hist, ydocs, auth, rest>>

\* ------------------------------------------------- other callers, REST

\* manager.connect(doc_id, ws) called on the registry of
\* src.core.websockets with a socket object of the caller's own, as
\* test_crdt_update_sync does.  A socket object is connected once.
DirectConnect(x, d) ==
    /\ x \in MockSockets
    /\ attached[x] = {}
    /\ d \in StoredDocs
    /\ active_connections' =
         [active_connections EXCEPT ![ListenerManager(ReplicaOf(x))] =
            RegConnect(@, d, x)]
    /\ attached' = [attached EXCEPT ![x] = @ \cup {d}]
    /\ UNCHANGED <<store, pc, sess, client_gone, closed, sent, subscribed,
                   inbox, bcast, published, folded, nmsgs, due, hist, ydocs, auth, rest>>

\* delete_document (DELETE /documents/{id}): delete_one.
DeleteDocument(d) ==
    /\ IsValidObjectId(d)
    /\ store[d].exists
    /\ store' = [store EXCEPT ![d] = NoStoredDoc]
    /\ UNCHANGED <<pc, sess, client_gone, closed, sent, active_connections,
                   subscribed, inbox, bcast, published, folded, nmsgs, attached, due, hist, ydocs, auth, rest>>

\* ------------------------------------------------------ specification

\* Two sessions on replica R1; nothing but sync_document attaches sockets.
SessionSockets == {"s1", "s2"}

\* The tokens presented: absent, or issued to a user with access (the
\* owner on either socket, the viewer on the first).
SessionTokens(s) ==
    {t \in Tokens : \/ ~t.present
                    \/ t.sig /\ t.sub = "owner"
                    \/ t.sig /\ t.sub = "viewer" /\ s = "s1"}

\* The ids dialled: the stored document and a well-formed id with no document.
SessionDocs == {DocA, DocC}

Next ==
    \/ \E s \in SessionSockets : \E t \in SessionTokens(s), d \in SessionDocs : Dial(s, t, d)
    \/ \E s \in SessionSockets : Connect(s)
    \/ \E s \in SessionSockets : Subscribe(s)
    \/ \E s \in SessionSockets : SendSyncState(s)
    \/ \E s \in SessionSockets, msg \in ClientEnvelopes : RecvUpdate(s, msg)
    \/ \E s \in SessionSockets : FoldRead(s)
    \/ \E s \in SessionSockets : FoldWrite(s)
    \/ \E s \in SessionSockets : FoldError(s)
    \/ \E s \in SessionSockets : Publish(s)
    \/ \E s \in SessionSockets, msg \in ClientEnvelopes : RecvAwareness(s, msg)
    \/ \E s \in SessionSockets, msg \in ClientEnvelopes : RecvPresence(s, msg)
    \/ \E s \in SessionSockets, msg \in ClientEnvelopes : RecvOther(s, msg)
    \/ \E s \in SessionSockets : RecvMalformed(s)
    \/ \E s \in SessionSockets : Close(s)
    \/ \E s \in SessionSockets : RecvDisconnect(s)
    \/ \E s \in SessionSockets : Unsubscribe(s)
    \/ \E s \in SessionSockets : ClientDrop(s)
    \/ \E r \in Replicas : ListenerGet(r)
    \/ \E d \in DocIds : DeleteDocument(d)

Spec == Init /\ [][Next]_vars

\* ------------------------------------- sessions, listener and test sockets

\* Two stored documents; a session on each replica, and two socket objects
\* attached directly to the registry the listener broadcasts to.
InitBridge ==
    /\ store = [d \in DocIds |-> IF d \in StoredDocs THEN CreatedDoc
                                 ELSE NoStoredDoc]
    /\ InitRest

BridgeSockets == {"s1", "s3"}

\* Tokens issued to users with access.
BridgeTokens == {t \in Tokens : t.sig /\ t.sub = "owner"}

\* The clients send well-formed updates.
BridgeEnvelopes == {e \in ClientEnvelopes : e.type = "update" /\ e.update = "u1"}

NextBridge ==
    \/ \E s \in BridgeSockets, t \in BridgeTokens, d \in StoredDocs : Dial(s, t, d)
    \/ \E s \in BridgeSockets : Connect(s)
    \/ \E s \in BridgeSockets : Subscribe(s)
    \/ \E s \in BridgeSockets : SendSyncState(s)
    \/ \E s \in BridgeSockets, msg \in BridgeEnvelopes : RecvUpdate(s, msg)
    \/ \E s \in BridgeSockets : FoldRead(s)
    \/ \E s \in BridgeSockets : FoldWrite(s)
    \/ \E s \in BridgeSockets : Publish(s)
    \/ \E x \in MockSockets : ClientDrop(x)
    \/ \E r \in Replicas : ListenerGet(r)
    \/ \E r \in Replicas, x \in AllSockets : BroadcastSend(r, x)
    \/ \E x \in MockSockets, d \in StoredDocs : DirectConnect(x, d)

SpecBridge == InitBridge /\ [][NextBridge]_vars

\* ------------------------------------------------------- the handshake

\* Every token and every id, up to the first read of the receive loop.
NextHandshake ==
    \/ \E s \in SessionSockets, t \in Tokens, d \in DocIds : Dial(s, t, d)
    \/ \E s \in SessionSockets : Connect(s)
    \/ \E s \in SessionSockets : Subscribe(s)
    \/ \E s \in SessionSockets : SendSyncState(s)
    \/ \E s \in SessionSockets : ClientDrop(s)
    \/ \E d \in DocIds : DeleteDocument(d)

\* The stored document was created by create_document, or is stored
\* without a state field (DocumentInDB.state defaults to None).
InitHandshake ==
    /\ store \in {[d \in DocIds |-> IF d = DocA THEN doc ELSE NoStoredDoc] :
                    doc \in {CreatedDoc, StatelessDoc}}
    /\ InitRest

SpecHandshake == InitHandshake /\ [][NextHandshake]_vars

\* ------------------------------------------------- the registry alone

\* manager.disconnect(doc_id, ws) called directly, as
\* test_websocket_sync_connection does: under any document, and again.
DirectDisconnect(x, d) ==
    /\ x \in MockSockets
    /\ attached[x] # {}
    /\ d \in StoredDocs
    /\ active_connections' =
         [active_connections EXCEPT ![ListenerManager(ReplicaOf(x))] =
            RegDisconnect(@, d, x)]
    /\ UNCHANGED <<store, pc, sess, client_gone, closed, sent, subscribed,
                   inbox, bcast, published, folded, nmsgs, attached, due, hist, ydocs, auth, rest>>

\* The payload the tests broadcast: an update envelope.
TestPayload(d) == Env("update", "u1", "owner", d, {})

\* manager.broadcast(doc_id, payload) called directly, as the tests do; up
\* to the first send.
DirectBroadcast(r, d) ==
    /\ bcast[r].pc = "idle"
    /\ nmsgs < MaxMsgs
    /\ d \in StoredDocs
    /\ nmsgs' = nmsgs + 1
    /\ LET m == ListenerManager(r)
           connections == RegSnapshot(active_connections[m], d)
       IN bcast' = [bcast EXCEPT ![r] =
            IF connections = {}
            THEN IdleBcast
            ELSE [pc |-> "sending",
                  doc |-> d, data |-> TestPayload(d), manager |-> m,
                  snapshot |-> connections, pending |-> connections,
                  failed |-> {}, sends |-> [x \in connections |-> 0],
                  errors |-> bcast[r].errors]]
    /\ UNCHANGED <<store, pc, sess, client_gone, closed, sent,
                   active_connections, subscribed, inbox, published, folded,
                   attached, due, hist, ydocs, auth, rest>>

\* Socket objects connected to, broadcast to and disconnected from one
\* registry, in any interleaving.
NextRegistry ==
    \/ \E x \in MockSockets, d \in StoredDocs : DirectConnect(x, d)
    \/ \E x \in MockSockets, d \in StoredDocs : DirectDisconnect(x, d)
    \/ \E r \in Replicas, d \in StoredDocs : DirectBroadcast(r, d)
    \/ \E r \in Replicas, x \in MockSockets : BroadcastSend(r, x)
    \/ \E x \in MockSockets : ClientDrop(x)

SpecRegistry == InitBridge /\ [][NextRegistry]_vars

\* ----------------------------------------------------- forged attribution

\* The sessions of Spec, whose clients fill the attribution fields of every
\* update and presence envelope themselves.
NextAttribution ==
    \/ \E s \in SessionSockets : \E t \in SessionTokens(s) : Dial(s, t, DocA)
    \/ \E s \in SessionSockets : Connect(s)
    \/ \E s \in SessionSockets : Subscribe(s)
    \/ \E s \in SessionSockets : SendSyncState(s)
    \/ \E s \in SessionSockets, msg \in AttributedEnvelopes : RecvUpdate(s, msg)
    \/ \E s \in SessionSockets : FoldRead(s)
    \/ \E s \in SessionSockets : FoldWrite(s)
    \/ \E s \in SessionSockets : Publish(s)
    \/ \E s \in SessionSockets, msg \in AttributedEnvelopes : RecvPresence(s, msg)
    \/ \E s \in SessionSockets : Close(s)

SpecAttribution == Init /\ [][NextAttribution]_vars

\* ------------------------------------------------------ the merge test
\* test_crdt_merging: base = from_text(text); client_a and client_b are
\* built from base's state; each inserts at the end of its text and the
\* managers apply each other's updates in any order.

ServiceVars == <<store, pc, sess, client_gone, closed, sent, active_connections,
                 subscribed, inbox, bcast, published, folded, nmsgs, attached,
                 due, hist>>

InitCrdt ==
    /\ store = [d \in DocIds |-> IF d = DocA THEN CreatedDoc ELSE NoStoredDoc]
    /\ InitService
    /\ auth = NoAuth
    /\ rest = NoRest
    /\ \E text \in BaseTexts :
         LET base == FromText(ClientId("base"), text)
             base_state == ManagerGetState(base)
         IN  ydocs = [base_state |-> base_state,
                      docs |-> [k \in YNames |->
                                  IF k = "base" THEN base
                                  ELSE NewManager(base_state)]]

\* client.text.insert(tr, len, ch)
TextInsert(k) ==
    /\ Cardinality({i \in ydocs.docs[k] : i.id[1] = ClientId(k)}) < MaxInserts
    /\ ydocs' = [ydocs EXCEPT !.docs[k] = YInsertAtEnd(@, ClientId(k), CharOf(k))]
    /\ UNCHANGED <<ServiceVars, auth, rest>>

\* k.apply_update(Y.encode_state_as_update(j.doc, vector)): the vector is
\* absent (the full state) or that of base_state.
MergeUpdate(k, j, relative) ==
    /\ k # j
    /\ LET known == IF relative THEN DecodeUpdate(ydocs.base_state) ELSE {}
           update == YEncodeStateAsUpdate(ydocs.docs[j], known)
       IN  ydocs' = [ydocs EXCEPT !.docs[k] = ManagerApplyUpdate(@, update)]
    /\ UNCHANGED <<ServiceVars, auth, rest>>

NextCrdt ==
    \/ \E k \in {"client_a", "client_b"} : TextInsert(k)
    \/ \E k \in YNames, j \in YNames, relative \in BOOLEAN :
         MergeUpdate(k, j, relative)

SpecCrdt == InitCrdt /\ [][NextCrdt]_vars

\* -------------------------------------------- registration and verify-email
\* POST /auth/register and POST /auth/verify-email for one e-mail address,
\* with requests that overlap.

InitAuth ==
    /\ store = [d \in DocIds |-> IF d = DocA THEN CreatedDoc ELSE NoStoredDoc]
    /\ InitService
    /\ ydocs = NoYDocs
    /\ rest = NoRest
    /\ auth = NoAuth

\* A lockout that starts one attempt later.
LockedOutAfter(session) == session.expired \/ session.attempts > MaxAttempts

\* `session.expires_at < now or session.attempts >= 3`
LockedOut(session) == session.expired \/ session.attempts >= MaxAttempts

\* register: get_user_by_email and get_user_by_username find no user (400
\* otherwise).
RegisterCheck ==
    /\ auth.reg = "idle"
    /\ auth.registrations < MaxRegistrations
    /\ auth.users = 0
    /\ auth' = [auth EXCEPT !.reg = "upsert"]
    /\ UNCHANGED <<ServiceVars, ydocs, rest>>

\* initiate_registration: the upsert stores a session with attempts = 0 and
\* a new expiry.  A new pending registration begins.
RegisterUpsert ==
    /\ auth.reg = "upsert"
    /\ auth' = [auth EXCEPT !.reg = "idle",
                            !.registrations = @ + 1,
                            !.session = [exists |-> TRUE, attempts |-> 0,
                                         expired |-> FALSE],
                            !.wrong_made = 0]
    /\ UNCHANGED <<ServiceVars, ydocs, rest>>

\* Ten minutes pass.
Expire ==
    /\ auth.session.exists
    /\ ~auth.session.expired
    /\ auth' = [auth EXCEPT !.session.expired = TRUE]
    /\ UNCHANGED <<ServiceVars, ydocs, rest>>

\* The return of a verify_email call.
Returned(a, c, result) ==
    [a EXCEPT !.calls[c].pc = "idle",
              !.calls[c].result = result,
              !.wrong_made = @ + (IF a.calls[c].otp # OtpCode THEN 1 ELSE 0)]

\* verify_email up to its second await: find_one, `if not doc: return
\* False`, and the choice of the branch on the document read.
VerifyFind(c, otp) ==
    /\ auth.calls[c].pc = "idle"
    /\ auth.ncalls < MaxCalls
    /\ LET doc == auth.session
           call == [pc |-> IF ~doc.exists THEN "idle"
                           ELSE IF LockedOut(doc) THEN "delete"
                           ELSE IF OtpCode # otp THEN "inc"
                           ELSE "insert",
                    otp |-> otp, doc |-> doc,
                    late |-> auth.wrong_made >= MaxAttempts,
                    result |-> "none"]
           begun == [auth EXCEPT !.calls[c] = call, !.ncalls = @ + 1]
       IN  auth' = IF doc.exists THEN begun ELSE Returned(begun, c, "fail")
    /\ UNCHANGED <<ServiceVars, ydocs, rest>>

\* delete_one({"email": email}); return False
VerifyDelete(c) ==
    /\ auth.calls[c].pc = "delete"
    /\ auth' = Returned([auth EXCEPT !.session = NoSession], c, "fail")
    /\ UNCHANGED <<ServiceVars, ydocs, rest>>

\* update_one({"email": email}, {"$inc": {"attempts": 1}}); return False.
\* Without upsert: nothing is written when the session is gone.
VerifyInc(c) ==
    /\ auth.calls[c].pc = "inc"
    /\ auth' = Returned([auth EXCEPT !.session.attempts =
                             IF auth.session.exists THEN @ + 1 ELSE @],
                        c, "fail")
    /\ UNCHANGED <<ServiceVars, ydocs, rest>>

\* insert_one(user): the unique index on email refuses a second user.
VerifyInsert(c) ==
    /\ auth.calls[c].pc = "insert"
    /\ auth' = IF auth.users = 0
               THEN [auth EXCEPT !.users = 1, !.calls[c].pc = "cleanup"]
               ELSE Returned(auth, c, "error")
    /\ UNCHANGED <<ServiceVars, ydocs, rest>>

\* delete_one({"email": email}); return True
VerifyCleanup(c) ==
    /\ auth.calls[c].pc = "cleanup"
    /\ auth' = Returned([auth EXCEPT !.session = NoSession], c, "ok")
    /\ UNCHANGED <<ServiceVars, ydocs, rest>>

NextAuth ==
    \/ RegisterCheck
    \/ RegisterUpsert
    \/ Expire
    \/ \E c \in Callers, otp \in Otps : VerifyFind(c, otp)
    \/ \E c \in Callers : VerifyDelete(c)
    \/ \E c \in Callers : VerifyInc(c)
    \/ \E c \in Callers : VerifyInsert(c)
    \/ \E c \in Callers : VerifyCleanup(c)

SpecAuth == InitAuth /\ [][NextAuth]_vars

\* ------------------------------------------------- the REST document routes
\* GET, PATCH and DELETE /documents/{id} and the two collaborator routes on
\* one document, requests one after the other (a request is one step: its
\* permission dependency, then its handler).

InitRestApi ==
    /\ store = [d \in DocIds |-> IF d = DocA THEN CreatedDoc ELSE NoStoredDoc]
    /\ InitService
    /\ ydocs = NoYDocs
    /\ auth = NoAuth
    /\ rest = [NoRest EXCEPT !.exists = TRUE,
                             !.collaborators =
                                 [u \in RestUsers |->
                                    IF u \in DOMAIN CollaboratorsOf(DocA)
                                    THEN CollaboratorsOf(DocA)[u] ELSE "none"]]

\* The role the requester has on the document.
RestRole(u) == IF u = OwnerOf(DocA) THEN "owner" ELSE rest.collaborators[u]

\* get_document_for_access: 404 without the document, 403 for a user who
\* is neither owner nor collaborator, else the document (0).
GetDocumentForAccess(u) ==
    IF ~rest.exists THEN 404
    ELSE IF ~(u = OwnerOf(DocA) \/ rest.collaborators[u] # "none") THEN 403
    ELSE 0

\* An edit check that accepts every collaborator.
GetDocumentForEditAnyRole(u) == GetDocumentForAccess(u)

\* get_document_for_edit: the owner, or a collaborator whose role is
\* "editor".
GetDocumentForEdit(u) ==
    IF GetDocumentForAccess(u) # 0 THEN GetDocumentForAccess(u)
    ELSE IF u = OwnerOf(DocA) THEN 0
    ELSE IF rest.collaborators[u] # "editor" THEN 403
    ELSE 0

\* get_document_for_owner
GetDocumentForOwner(u) ==
    IF GetDocumentForAccess(u) # 0 THEN GetDocumentForAccess(u)
    ELSE IF OwnerOf(DocA) # u THEN 403
    ELSE 0

\* enrich_collaborators: its first statement imports get_users_by_ids from
\* the auth services, which define no such name; the ImportError leaves the
\* route as a 500 response.
EnrichCollaborators(collaborators) == 500

Response(u, op, status) ==
    [user |-> u, op |-> op, role |-> RestRole(u), status |-> status]

\* GET /documents/{id}
GetDocumentDetails(u) ==
    /\ rest' = [rest EXCEPT !.last =
                   Response(u, "read",
                            IF GetDocumentForAccess(u) # 0
                            THEN GetDocumentForAccess(u)
                            ELSE EnrichCollaborators(rest.collaborators))]
    /\ UNCHANGED <<ServiceVars, ydocs, auth>>

\* PATCH /documents/{id}
UpdateDocumentContent(u) ==
    /\ rest' = IF GetDocumentForEdit(u) # 0
               THEN [rest EXCEPT !.last =
                        Response(u, "update", GetDocumentForEdit(u))]
               ELSE [rest EXCEPT !.content = 1 - @,
                                 !.last = Response(u, "update", 200)]
    /\ UNCHANGED <<ServiceVars, ydocs, auth>>

\* DELETE /documents/{id}
DeleteExistingDocument(u) ==
    /\ rest' = IF GetDocumentForOwner(u) # 0
               THEN [rest EXCEPT !.last =
                        Response(u, "delete", GetDocumentForOwner(u))]
               ELSE [rest EXCEPT !.exists = FALSE,
                                 !.last = Response(u, "delete", 204)]
    /\ UNCHANGED <<ServiceVars, ydocs, auth>>

\* POST /documents/{id}/collaborators: add_collaborator leaves the owner
\* out, sets the role of a collaborator or appends one; the response is
\* built by enrich_collaborators.
ManageCollaborators(u, target, role) ==
    /\ rest' = IF GetDocumentForOwner(u) # 0
               THEN [rest EXCEPT !.last =
                        Response(u, "add", GetDocumentForOwner(u))]
               ELSE [rest EXCEPT
                        !.collaborators =
                            IF target = OwnerOf(DocA) THEN @
                            ELSE [@ EXCEPT ![target] = role],
                        !.last = Response(u, "add",
                                          EnrichCollaborators(rest.collaborators))]
    /\ UNCHANGED <<ServiceVars, ydocs, auth>>

\* DELETE /documents/{id}/collaborators/{user_id}
RemoveDocumentCollaborator(u, target) ==
    /\ rest' = IF GetDocumentForOwner(u) # 0
               THEN [rest EXCEPT !.last =
                        Response(u, "remove", GetDocumentForOwner(u))]
               ELSE [rest EXCEPT
                        !.collaborators = [@ EXCEPT ![target] = "none"],
                        !.last = Response(u, "remove",
                                          EnrichCollaborators(rest.collaborators))]
    /\ UNCHANGED <<ServiceVars, ydocs, auth>>

NextRestApi ==
    \/ \E u \in RestUsers : GetDocumentDetails(u)
    \/ \E u \in RestUsers : UpdateDocumentContent(u)
    \/ \E u \in RestUsers : DeleteExistingDocument(u)
    \/ \E u \in RestUsers, target \in RestUsers, role \in RoleInputs :
         ManageCollaborators(u, target, role)
    \/ \E u \in RestUsers, target \in RestUsers :
         RemoveDocumentCollaborator(u, target)

SpecRestApi == InitRestApi /\ [][NextRestApi]_vars

\* -------------------------------------------------- two editing replicas
\* One session per replica on the same document, the owner's on R1 and the
\* editor's on R2, each sending updates of its own; a socket object
\* attached through the registry of the listener's module, as in SpecBridge.

ConvergeSockets == {"s1", "s3"}

ConvergeToken(s) ==
    [present |-> TRUE, sub |-> IF s = "s1" THEN "owner" ELSE "editor",
     sig |-> TRUE]

\* The update each client sends.
ConvergeItem(s) == IF s = "s1" THEN "u1" ELSE "u2"
ConvergeEnvelopes(s) ==
    {e \in ClientEnvelopes : e.type = "update" /\ e.update = ConvergeItem(s)}

NextConverge ==
    \/ \E s \in ConvergeSockets : Dial(s, ConvergeToken(s), DocA)
    \/ \E s \in ConvergeSockets : Connect(s)
    \/ \E s \in ConvergeSockets : Subscribe(s)
    \/ \E s \in ConvergeSockets : SendSyncState(s)
    \/ \E s \in ConvergeSockets :
         \E msg \in ConvergeEnvelopes(s) : RecvUpdate(s, msg)
    \/ \E s \in ConvergeSockets : FoldRead(s)
    \/ \E s \in ConvergeSockets : FoldWrite(s)
    \/ \E s \in ConvergeSockets : Publish(s)
    \/ \E r \in Replicas : ListenerGet(r)
    \/ \E r \in Replicas, x \in AllSockets : BroadcastSend(r, x)
    \/ \E x \in MockSockets : DirectConnect(x, DocA)

SpecConverge == Init /\ [][NextConverge]_vars

\* ------------------------------------------- one client, two updates

\* The envelope a session publishes for the update item of its client.
PublishedBy(s, item) ==
    [ProcessSyncMessage(sess[s].user, Env("update", item, NoUser, NoDoc, {}))
       EXCEPT !.for_doc = sess[s].doc]

\* Each client sends the update u1 and then the update u2: what it sends
\* next is u2 once its session has taken u1.
OrderItem(s) ==
    IF sess[s].msg.update = "u1" \/ PublishedBy(s, "u1") \in published
    THEN "u2" ELSE "u1"
OrderEnvelopes(s) ==
    {e \in ClientEnvelopes : e.type = "update" /\ e.update = OrderItem(s)}

\* Two sessions of one document on two replicas, whose database calls
\* succeed.
NextOrder ==
    \/ \E s \in ConvergeSockets : Dial(s, ConvergeToken(s), DocA)
    \/ \E s \in ConvergeSockets : Connect(s)
    \/ \E s \in ConvergeSockets : Subscribe(s)
    \/ \E s \in ConvergeSockets : SendSyncState(s)
    \/ \E s \in ConvergeSockets :
         \E msg \in OrderEnvelopes(s) : RecvUpdate(s, msg)
    \/ \E s \in ConvergeSockets : FoldRead(s)
    \/ \E s \in ConvergeSockets : FoldWrite(s)
    \/ \E s \in ConvergeSockets : Publish(s)
    \/ \E r \in Replicas : ListenerGet(r)

SpecOrder == Init /\ [][NextOrder]_vars

\* ------------------------------------- the listener and its channel

\* Another client of the Redis server publishes a payload that is no JSON
\* text on the channel of document d.
RedisPublish(d) ==
    /\ nmsgs < MaxMsgs
    /\ nmsgs' = nmsgs + 1
    /\ inbox' = Deliver(ChannelOf(d), NotJson)
    /\ UNCHANGED <<store, pc, sess, client_gone, closed, sent,
                   active_connections, subscribed, bcast, published, folded,
                   attached, due, hist, ydocs, auth, rest>>

\* The session whose client publishes, and the sockets whose peers can go.
ListenerSockets == {"s1"}
ListenerToken == [present |-> TRUE, sub |-> "owner", sig |-> TRUE]

\* One session that sends u1 and then u2, socket objects on the listener's
\* registry, peers that go away, and a channel that also carries payloads
\* of another publisher.
NextListener ==
    \/ \E s \in ListenerSockets : Dial(s, ListenerToken, DocA)
    \/ \E s \in ListenerSockets : Connect(s)
    \/ \E s \in ListenerSockets : Subscribe(s)
    \/ \E s \in ListenerSockets : SendSyncState(s)
    \/ \E s \in ListenerSockets :
         \E msg \in OrderEnvelopes(s) : RecvUpdate(s, msg)
    \/ \E s \in ListenerSockets : FoldRead(s)
    \/ \E s \in ListenerSockets : FoldWrite(s)
    \/ \E s \in ListenerSockets : Publish(s)
    \/ \E s \in ListenerSockets : RecvDisconnect(s)
    \/ \E s \in ListenerSockets : Unsubscribe(s)
    \/ \E x \in ListenerSockets \cup MockSockets : ClientDrop(x)
    \/ RedisPublish(DocA)
    \/ \E r \in Replicas : ListenerGet(r)
    \/ \E r \in Replicas, x \in AllSockets : BroadcastSend(r, x)
    \/ \E x \in MockSockets : DirectConnect(x, DocA)

SpecListener == Init /\ [][NextListener]_vars

\* ------------------------------ the stored content and the stored state

\* The documents collection on the text level: one document, its state
\* field and its content field.
NoTextDoc == [exists |-> FALSE, state |-> NoBytes, content |-> <<>>]

\* The content field of a PATCH body.
PatchTexts == {<<>>, <<"h">>, <<"x">>}

InitContent ==
    /\ store = [d \in DocIds |-> NoStoredDoc]
    /\ InitService
    /\ auth = NoAuth
    /\ rest = NoRest
    /\ ydocs = NoTextDoc

\* create_document: content as given, state from from_text(content).
CreateDocument(text) ==
    /\ ~ydocs.exists
    /\ ydocs' = [exists |-> TRUE,
                 state |-> ManagerGetState(FromText(ClientId("base"), text)),
                 content |-> text]
    /\ UNCHANGED <<ServiceVars, auth, rest>>

\* update_document with a content field: `$set` of the fields of the body
\* and updated_at; the state field is not among them.
PatchContent(text) ==
    /\ ydocs.exists
    /\ ydocs' = [ydocs EXCEPT !.content = text]
    /\ UNCHANGED <<ServiceVars, auth, rest>>

\* The update of a client that holds the stored state and types one
\* character at the end of the text.
ClientUpdate(k, state) ==
    LET doc == NewManager(state)
    IN  YEncodeStateAsUpdate(YInsertAtEnd(doc, ClientId(k), CharOf(k)), doc)

\* apply_crdt_update for the update of client k: state and content are
\* written by one find_one_and_update.
FoldUpdate(k) ==
    /\ ydocs.exists
    /\ Cardinality({i \in DecodeUpdate(ydocs.state) : i.id[1] = ClientId(k)})
         < MaxInserts
    /\ LET update == ClientUpdate(k, ydocs.state)
       IN  ydocs' = [ydocs EXCEPT
                       !.state = PersistedState(ydocs.state, update),
                       !.content = PersistedContent(ydocs.state, update)]
    /\ UNCHANGED <<ServiceVars, auth, rest>>

NextContent ==
    \/ \E text \in BaseTexts : CreateDocument(text)
    \/ \E text \in PatchTexts : PatchContent(text)
    \/ \E k \in {"client_a", "client_b"} : FoldUpdate(k)

SpecContent == InitContent /\ [][NextContent]_vars

\* ------------------------------------------------------------- claims

Range(q) == {q[i] : i \in 1..Len(q)}

IsSyncState(e) == e.type = "sync_state"

\* The role of user u on document d: owner, a collaborator's role, or none.
Role(u, d) ==
    IF u = OwnerOf(d) THEN "owner"
    ELSE IF u \in DOMAIN CollaboratorsOf(d) THEN CollaboratorsOf(d)[u]
    ELSE "none"

\* The sockets the router's registry of replica r holds for document d.
Registered(r, d) == RegSnapshot(active_connections[RouterManager(r)], d)

\* C1: folds of one document on one replica are serialized, so no fold
\* overwrites the result of another: every update whose fold has written on
\* replica r is contained in the stored state of its document.
C1_FoldsSerialized ==
    \A r \in Replicas, d \in DocIds :
        store[d].exists => folded[r][d] \subseteq store[d].state

\* C2: an update envelope is published only after its update has been
\* folded: every published update was written by a fold and is contained in
\* the stored state of its document; an update whose fold wrote nothing is
\* never published.
C2_PublishedAfterFold ==
    \A e \in published :
        e.type = "update" =>
            /\ \E r \in Replicas : e.update \in folded[r][e.for_doc]
            /\ store[e.for_doc].exists => e.update \in store[e.for_doc].state

\* C3: an update sent by a session whose user is a viewer of the document
\* is dropped: the session never folds it and never publishes it.
C3_ViewerUpdateDropped ==
    \A s \in Sockets :
        (sess[s].user # NoUser /\ Role(sess[s].user, sess[s].doc) = "viewer") =>
            /\ pc[s] \notin {"fold_read", "fold_write", "publish"}
            /\ \A e \in published :
                 ~(e.user_id = sess[s].user /\ e.for_doc = sess[s].doc)

\* No session is inside a join, a message or a cleanup, and none ended
\* outside the ways C4 names.
Quiescent == \A s \in Sockets : pc[s] \in {"init", "rejected", "recv", "done"}

\* C4: refcount integrity: once no operation is in flight, a replica is
\* subscribed to doc:<docId> if and only if its registry holds at least one
\* socket for docId.
C4_RefcountIntegrity ==
    Quiescent =>
        \A r \in Replicas, d \in DocIds :
            (ChannelOf(d) \in subscribed[r]) <=> (Registered(r, d) # {})

\* C5: fan-out: a broadcast sends the envelope exactly once to each socket
\* that was in the document's set when it started (none before its turn),
\* the envelope has reached every socket whose send succeeded, and every
\* socket whose send failed is detached from the registry.
C5_FanOut ==
    \A r \in Replicas :
        bcast[r].snapshot # {} =>
            \A x \in bcast[r].snapshot :
                /\ bcast[r].sends[x] = IF x \in bcast[r].pending THEN 0 ELSE 1
                /\ bcast[r].pc = "idle" => bcast[r].sends[x] = 1
                /\ x \in bcast[r].failed =>
                     x \notin RegSnapshot(active_connections[bcast[r].manager],
                                          bcast[r].doc)
                /\ (x \notin bcast[r].pending /\ x \notin bcast[r].failed) =>
                     bcast[r].data \in Range(sent[x])

\* A broadcast to two sockets has ended: one send failed, one succeeded.
C5_Witness ==
    \E r \in Replicas :
        /\ bcast[r].pc = "idle"
        /\ Cardinality(bcast[r].snapshot) = 2
        /\ bcast[r].failed # {}
        /\ bcast[r].failed # bcast[r].snapshot

\* C6: isolation: every envelope sent on a socket was published or produced
\* for a document the socket is attached under, and a running broadcast
\* only targets sockets attached under its document.
C6_Isolation ==
    /\ \A x \in AllSockets : \A e \in Range(sent[x]) : e.for_doc \in attached[x]
    /\ \A r \in Replicas : \A x \in bcast[r].pending : bcast[r].doc \in attached[x]

\* An update published for document a was sent on a socket while another
\* socket was registered under document b only.
C6_Witness ==
    \E x \in AllSockets, y \in AllSockets :
        /\ attached[x] = {DocB}
        /\ x \in RegSnapshot(active_connections[ListenerManager(ReplicaOf(x))], DocB)
        /\ \E e \in Range(sent[y]) : e.type = "update" /\ e.for_doc = DocA

\* Nothing is left in the Pub/Sub connections and no broadcast is running.
Drained == \A r \in Replicas : inbox[r] = <<>> /\ bcast[r].pc = "idle"

\* C7: delivery: once the Pub/Sub messages are delivered and broadcast, every
\* socket that is still joined has received each folded update that was
\* published for its document while it was joined (the sender's included).
C7_Delivered ==
    \A s \in Sockets :
        (Drained /\ pc[s] = "recv" /\ ~client_gone[s]) =>
            \A e \in due[s] :
                \E f \in Range(sent[s]) : f.type = "update" /\ f.update = e.update

\* C8: a handshake that fails a check is closed with the code of the first
\* failing check (4001 token absent, 4002 token invalid, 4003 user missing
\* or inactive, 4004 document not found, 4005 neither owner nor
\* collaborator); a handshake fails only then; and a rejected socket is
\* never attached, never subscribed for and never sent a frame.
C8_CloseCodes ==
    /\ \A s \in Sockets :
        pc[s] # "init" =>
            LET t == sess[s].token
                absent == ~t.present
                invalid == ~t.sig
                nouser == t.sub \notin Users \/ t.sub = "inactive"
                nodoc == ~sess[s].found
                noaccess == Role(t.sub, sess[s].document_id) = "none"
                code == IF absent THEN 4001
                        ELSE IF invalid THEN 4002
                        ELSE IF nouser THEN 4003
                        ELSE IF nodoc THEN 4004
                        ELSE IF noaccess THEN 4005
                        ELSE 0
            IN /\ (pc[s] = "rejected") <=> (code # 0)
               /\ pc[s] = "rejected" =>
                    /\ closed[s] = code
                    /\ attached[s] = {}
                    /\ sent[s] = <<>>
                    /\ \A m \in Managers : \A d \in DOMAIN active_connections[m] :
                         s \notin active_connections[m][d]
    /\ \A r \in Replicas : \A ch \in subscribed[r] :
         \E x \in Sockets : /\ ReplicaOf(x) = r
                            /\ pc[x] \notin {"init", "rejected", "accepted", "attached"}
                            /\ ch = ChannelOf(sess[x].doc)

\* One handshake was refused for a missing document and one for a user
\* without access, while nothing was attached or subscribed.
C8_Witness ==
    /\ \E s \in Sockets : pc[s] = "rejected" /\ closed[s] = 4004 /\ sess[s].token.sub = "stranger"
    /\ \E s \in Sockets : pc[s] = "rejected" /\ closed[s] = 4005
    /\ \A r \in Replicas : subscribed[r] = {}

C10_SyncStateFirst ==
    \A s \in Sockets :
        \A i \in 1..Len(sent[s]) :
            ~IsSyncState(sent[s][i]) =>
                \E j \in 1..(i - 1) : IsSyncState(sent[s][j])

\* A session is attached and has not sent its sync_state while the listener
\* of its replica is broadcasting an update of the same document.
C10_Witness ==
    \E s \in Sockets :
        /\ pc[s] \in {"attached", "subscribed"}
        /\ bcast[ReplicaOf(s)].pc = "sending"
        /\ bcast[ReplicaOf(s)].doc = sess[s].doc
        /\ bcast[ReplicaOf(s)].data.type = "update"

\* C11: when the fold of a client's update fails, the client is sent an
\* error envelope (persist_failed), the update is not published, and the
\* session stays joined.
C11_PersistFailedSent ==
    \A s \in Sockets :
        hist[s].fold_failed =>
            /\ \E e \in Range(sent[s]) : e.type = "error"
            /\ hist[s].exit # "exception"

\* C12: a subscribe is issued only on the 0->1 transition of the local
\* sessions of a document: no session issues one while its replica is
\* subscribed to the channel.
C12_SubscribeOnFirstJoin ==
    \A s \in Sockets : ~hist[s].resubscribed

\* A session's receive loop was ended by the client's disconnect and its
\* cleanup has run to the end.
EndedByDisconnect(s) == pc[s] = "done" /\ hist[s].exit = "disconnect"

\* C13: an unsubscribe is issued only on the 1->0 transition: a session
\* ended by its client's disconnect has issued exactly one unsubscribe when
\* its detach left no socket of the document in the registry, and none when
\* it left at least one; no other session has issued any.
C13_UnsubscribeOnLastLeave ==
    \A s \in Sockets :
        /\ EndedByDisconnect(s) =>
             hist[s].unsubs = IF hist[s].left_behind = 0 THEN 1 ELSE 0
        /\ hist[s].unsubs > 0 =>
             hist[s].exit = "disconnect" /\ hist[s].left_behind = 0
        /\ pc[s] = "unsub" <=>
             (hist[s].exit = "disconnect" /\ hist[s].left_behind = 0
              /\ hist[s].unsubs = 0)

\* Two sessions of one document were ended by disconnects: the first left
\* the other behind and issued no unsubscribe, the last issued one.
C13_Witness ==
    \E s \in Sockets, x \in Sockets :
        /\ EndedByDisconnect(s) /\ EndedByDisconnect(x)
        /\ sess[s].doc = sess[x].doc
        /\ hist[s].left_behind = 1 /\ hist[s].unsubs = 0
        /\ hist[x].left_behind = 0 /\ hist[x].unsubs = 1

\* C14: cleanup on every exit path: a session that left the receive loop
\* and finished its cleanup has detached its socket exactly once, has issued
\* an unsubscribe if that detach left no socket of the document, and its
\* socket is closed.
C14_CleanupOnEveryExit ==
    \A s \in Sockets :
        pc[s] = "done" =>
            /\ hist[s].detaches = 1
            /\ s \notin Registered(ReplicaOf(s), sess[s].doc)
            /\ hist[s].left_behind = 0 => hist[s].unsubs = 1
            /\ closed[s] # 0 \/ client_gone[s]

\* C15: a send failure never aborts a broadcast: while sockets of the list
\* are still to be sent to, the broadcast goes on after a failure, and when
\* it has ended after a failure every other socket of the list has been sent
\* the envelope once.
C15_FailureDoesNotAbort ==
    \A r \in Replicas :
        bcast[r].failed # {} =>
            /\ bcast[r].pending # {} => bcast[r].pc = "sending"
            /\ bcast[r].pc = "idle" =>
                 \A x \in bcast[r].snapshot \ bcast[r].failed :
                     /\ bcast[r].sends[x] = 1
                     /\ bcast[r].data \in Range(sent[x])

\* A broadcast to two sockets has ended: the send to the one whose peer is
\* gone failed, and the other was sent the envelope.
C15_Witness ==
    \E r \in Replicas, x \in AllSockets, y \in AllSockets :
        /\ x # y
        /\ bcast[r].pc = "idle"
        /\ bcast[r].snapshot = {x, y}
        /\ bcast[r].failed = {x} /\ client_gone[x]
        /\ bcast[r].sends[y] = 1
        /\ bcast[r].data \in Range(sent[y])

\* One turn of the loop of the broadcast of replica r.
IsBroadcastTurn(r) ==
    bcast[r].pc = "sending" /\ bcast'[r].pending # bcast[r].pending

\* C16: a turn of a broadcast for a document removes from the registries at
\* most the socket it sent to, and only when that send failed: every other
\* socket of the document and the sets of every other document are left as
\* they were.
C16_OnlyFailedSocketRemoved ==
    [][\A r \in Replicas :
         IsBroadcastTurn(r) =>
             \A m \in Managers, d \in DocIds :
                 LET before == RegSnapshot(active_connections[m], d)
                     after == RegSnapshot(active_connections'[m], d)
                     turn == bcast[r].pending \ bcast'[r].pending
                 IN /\ after \subseteq before
                    /\ before \ after \subseteq turn
                    /\ before # after =>
                         /\ m = bcast[r].manager
                         /\ d = bcast[r].doc
                         /\ \A x \in before \ after : SendFails(x)]_vars

\* A send of a broadcast failed and its socket is gone from the document's
\* set, while another socket is still registered.
C16_Witness ==
    \E r \in Replicas, x \in AllSockets, y \in AllSockets, d \in DocIds :
        /\ x # y
        /\ x \in bcast[r].failed
        /\ x \notin RegSnapshot(active_connections[bcast[r].manager], bcast[r].doc)
        /\ y \in RegSnapshot(active_connections[bcast[r].manager], d)

\* C17: in every registry a key is present if and only if its socket set is
\* non-empty: no key maps to an empty set, and a socket that was connected
\* and never removed is under the key of its document.
C17_KeyIffNonEmpty ==
    \A m \in Managers :
        /\ \A d \in DOMAIN active_connections[m] : active_connections[m][d] # {}
        /\ \A d \in DocIds :
             RegSnapshot(active_connections[m], d) # {}
                 <=> d \in DOMAIN active_connections[m]

\* The last socket of one document was disconnected, so its key is gone,
\* while another document still has its key.
C17_Witness ==
    \E x \in MockSockets, y \in MockSockets :
        LET reg == active_connections[ListenerManager(ReplicaOf(x))]
        IN /\ attached[x] = {DocA} /\ DocA \notin DOMAIN reg
           /\ attached[y] = {DocB} /\ DocB \in DOMAIN reg
           /\ y \in reg[DocB]

\* C18: an awareness envelope of a joined session is delivered to every
\* other local socket of the document and not to the sender's, and the
\* sender stays joined.
C18_AwarenessFannedOut ==
    \A s \in Sockets :
        "awareness" \in hist[s].read =>
            /\ hist[s].exit = "none"
            /\ \A e \in Range(sent[s]) : e.type # "awareness"
            /\ \A x \in Registered(ReplicaOf(s), sess[s].doc) \ {s} :
                 \E e \in Range(sent[x]) : e.type = "awareness"

\* What an awareness envelope carries in its update field.
AwarenessPayloads == {e.update : e \in {f \in ClientEnvelopes : f.type = "awareness"}}

\* C19: handling an awareness envelope never writes the stored state and
\* never publishes: no awareness envelope is published, waits in a Pub/Sub
\* connection or is sent on a socket, and no stored state holds what an
\* awareness envelope carried.
C19_AwarenessNotPersistedNotPublished ==
    /\ \A e \in published : e.type # "awareness"
    /\ \A r \in Replicas : \A i \in 1..Len(inbox[r]) :
         inbox[r][i].data.type # "awareness"
    /\ \A x \in AllSockets : \A e \in Range(sent[x]) : e.type # "awareness"
    /\ \A d \in DocIds : store[d].state \cap AwarenessPayloads = {}
    /\ \A r \in Replicas, d \in DocIds : folded[r][d] \cap AwarenessPayloads = {}

\* A joined session has handled an awareness envelope with an update field.
C19_Witness ==
    \E s \in Sockets : "awareness" \in hist[s].read /\ store[sess[s].doc].exists

\* C20: a presence envelope of a joined session is published to the
\* document's channel with the identity of the session's user, and the
\* session stays joined.
C20_PresencePublished ==
    \A s \in Sockets :
        "presence" \in hist[s].read =>
            /\ hist[s].exit = "none"
            /\ \E e \in published :
                 /\ e.type = "presence"
                 /\ e.user_id = sess[s].user
                 /\ e.for_doc = sess[s].doc

\* The users of the sessions that have passed the handshake for document d.
SessionUsers(d) ==
    {sess[s].user : s \in {x \in Sockets : sess[x].doc = d /\ sess[x].user # NoUser}}

\* C21: attribution is filled server-side: every published update or
\* presence envelope carries the user of a session of its document, never
\* what the client put in the field.
C21_AttributionServerSide ==
    \A e \in published :
        e.type \in {"update", "presence"} =>
            /\ e.user_id \in SessionUsers(e.for_doc)
            /\ e.user_id \notin ForgedIds

\* Two sessions of different users have each published an update that
\* arrived with a forged attribution.
C21_Witness ==
    \E e \in published, f \in published :
        /\ e.type = "update" /\ f.type = "update"
        /\ e.user_id = "owner" /\ f.user_id = "viewer"

\* C22: a malformed envelope is dropped: after a frame that is no JSON
\* object the session is still joined, and no update envelope without its
\* update field is published.
C22_MalformedDropped ==
    /\ \A s \in Sockets : "malformed" \in hist[s].read => hist[s].exit = "none"
    /\ \A e \in published : e.type = "update" => e.update # NoItem

\* The updates the managers can hand out now, and the states a document
\* can have stored (None included).
YUpdates ==
    {YEncodeStateAsUpdate(ydocs.docs[j], known) :
        j \in YNames, known \in {{}, DecodeUpdate(ydocs.base_state)}}
YStates == {ManagerGetState(ydocs.docs[k]) : k \in YNames} \cup {NoBytes}

\* C23: folding the same update bytes into a stored state twice, one fold
\* after the other, stores the same state and content as folding it once.
C23_FoldIdempotent ==
    \A state \in YStates, u \in YUpdates :
        LET once == PersistedState(state, u)
        IN  /\ PersistedState(once, u) = once
            /\ PersistedContent(once, u) = PersistedContent(state, u)

\* An update that changes a stored state is folded into it.
C23_Witness ==
    \E state \in YStates, u \in YUpdates :
        /\ state # NoBytes
        /\ DecodeUpdate(state) # {}
        /\ PersistedState(state, u) # state
        /\ DecodeUpdate(u) \cap DecodeUpdate(state) # {}

RECURSIVE IsSubseq(_, _)
IsSubseq(a, b) ==
    IF a = <<>> THEN TRUE
    ELSE IF b = <<>> THEN FALSE
    ELSE IF Head(a) = Head(b) THEN IsSubseq(Tail(a), Tail(b))
    ELSE IsSubseq(a, Tail(b))

IsPrefix(a, b) == Len(a) <= Len(b) /\ SubSeq(b, 1, Len(a)) = a

\* C25: applying two updates to the same document in either order gives
\* the same document; its text keeps the items of the base text in order,
\* starts with the text from_text was given, and shows every item of both
\* updates.
C25_ApplyCommutes ==
    \A k \in YNames, u1 \in YUpdates, u2 \in YUpdates :
        LET s == ydocs.docs[k]
            m12 == ManagerApplyUpdate(ManagerApplyUpdate(s, u1), u2)
            m21 == ManagerApplyUpdate(ManagerApplyUpdate(s, u2), u1)
        IN  /\ ManagerGetState(m12) = ManagerGetState(m21)
            /\ ManagerGetContent(m12) = ManagerGetContent(m21)
            /\ IsSubseq(YItemsAfter(s, NoId), YItemsAfter(m12, NoId))
            /\ IsPrefix(YStr(DecodeUpdate(ydocs.base_state)),
                        ManagerGetContent(m12))
            /\ DecodeUpdate(u1) \cup DecodeUpdate(u2)
                 \subseteq Range(YItemsAfter(m12, NoId))

\* client_a and client_b have each inserted what base and the other lack,
\* after a text that is not empty.
C25_Witness ==
    /\ DecodeUpdate(ydocs.base_state) # {}
    /\ ydocs.docs["client_a"] \ (ydocs.docs["client_b"] \cup ydocs.docs["base"]) # {}
    /\ ydocs.docs["client_b"] \ (ydocs.docs["client_a"] \cup ydocs.docs["base"]) # {}

\* C26: a manager built from get_state() of a document has the content of
\* that document, and from_text(t) has the content t.
C26_StateRoundTrip ==
    /\ \A k \in YNames :
         ManagerGetContent(NewManager(ManagerGetState(ydocs.docs[k])))
           = ManagerGetContent(ydocs.docs[k])
    /\ \A t \in BaseTexts :
         ManagerGetContent(NewManager(ManagerGetState(FromText(0, t)))) = t

\* A document that holds the base text and the insertions of both clients.
C26_Witness ==
    \E k \in YNames :
        /\ {i.id[1] : i \in ydocs.docs[k]} = {0, 1, 2}
        /\ Len(ManagerGetContent(ydocs.docs[k])) = Cardinality(ydocs.docs[k])

\* C27: a verify-email call made after three calls with a wrong otp have
\* returned for the pending registration never succeeds and never inserts
\* a user, whatever otp it carries.
C27_LockedOutAfterThree ==
    \A c \in Callers :
        auth.calls[c].late =>
            /\ auth.calls[c].result # "ok"
            /\ auth.calls[c].pc \notin {"insert", "cleanup"}

\* Such a call carried the right otp, found the session not expired with
\* three attempts, and failed; no user exists.
C27_Witness ==
    \E c \in Callers :
        /\ auth.calls[c].late
        /\ auth.calls[c].otp = OtpCode
        /\ auth.calls[c].doc.exists
        /\ ~auth.calls[c].doc.expired
        /\ auth.calls[c].doc.attempts >= MaxAttempts
        /\ auth.calls[c].result = "fail"
        /\ auth.users = 0

\* What each role may do on the document.
Allowed(role) ==
    CASE role = "owner"  -> {"read", "update", "delete", "add", "remove"}
      [] role = "editor" -> {"read", "update"}
      [] role = "viewer" -> {"read"}
      [] OTHER           -> {}

\* The permission checks alone: a request is refused with 403 exactly when
\* the requester's role does not allow it.
RestDenials ==
    (rest.last.op # "none" /\ rest.last.status # 404) =>
        (rest.last.status = 403 <=> rest.last.op \notin Allowed(rest.last.role))

\* C28: the REST permissions form a hierarchy: a request on an existing
\* document is refused with 403 when the requester's role does not allow
\* it, and succeeds (2xx) when it does: anyone but a stranger can read,
\* editor and owner can update, the owner alone can delete and manage
\* collaborators.
C28_PermissionHierarchy ==
    (rest.last.op # "none" /\ rest.last.status # 404) =>
        IF rest.last.op \in Allowed(rest.last.role)
        THEN rest.last.status \in {200, 204}
        ELSE rest.last.status = 403

\* C29: a session that attached while another session's unsubscribe from
\* its channel was decided and not yet done: once that unsubscribe and the
\* join are both complete, its replica is subscribed to the channel, and
\* once Pub/Sub is drained it has received every update published for its
\* document since it joined.
C29_JoinRacingUnsubscribe ==
    \A s \in Sockets :
        (/\ hist[s].raced
         /\ pc[s] = "recv"
         /\ ~client_gone[s]
         /\ \A x \in Sockets : pc[x] # "unsub")
        => /\ ChannelOf(sess[s].doc) \in subscribed[ReplicaOf(s)]
           /\ Drained =>
                {e.update : e \in due[s]}
                  \subseteq {f.update : f \in {g \in Range(sent[s]) :
                                                 g.type = "update"}}

\* What the client of a session holds: the snapshots of the sync_state
\* frames it was sent, the updates of the update frames it was sent, and
\* the updates it made itself.
Snapshot(s) == UNION {f.state : f \in {g \in Range(sent[s]) : IsSyncState(g)}}
OwnUpdates(s) ==
    {e.update : e \in {g \in published :
                         g.type = "update" /\ g.user_id = sess[s].user
                                           /\ g.for_doc = sess[s].doc}}
ClientHolds(s) ==
    Snapshot(s) \cup OwnUpdates(s)
      \cup {f.update : f \in {g \in Range(sent[s]) : g.type = "update"}}

\* The updates folded into document d on any replica.
Accepted(d) == UNION {folded[r][d] : r \in Replicas}

\* C24: convergence: once every Pub/Sub message is delivered and broadcast
\* and no session is inside a message, the clients connected to a document
\* hold the same content, which includes every update folded on either
\* replica.
C24_Convergence ==
    (Drained /\ Quiescent) =>
        \A s \in Sockets, x \in Sockets :
            (/\ pc[s] = "recv" /\ pc[x] = "recv"
             /\ ~client_gone[s] /\ ~client_gone[x]
             /\ sess[s].doc = sess[x].doc)
            => /\ ClientHolds(s) = ClientHolds(x)
               /\ Accepted(sess[s].doc) \subseteq ClientHolds(s)

\* The update frames a session was sent after its sync_state frame.
UpdatesAfterSyncState(s) ==
    {sent[s][i].update :
        i \in {j \in 1..Len(sent[s]) :
                 /\ sent[s][j].type = "update"
                 /\ \E k \in 1..(j - 1) : IsSyncState(sent[s][k])}}

\* C30: no update is missed across a join: once Pub/Sub is drained, every
\* update that another session folded into the document of a joined
\* session is in the snapshot that session was sent in its sync_state or
\* in an update frame it was sent after the sync_state.
C30_NoUpdateMissedAcrossJoin ==
    (Drained /\ Quiescent) =>
        \A s \in Sockets :
            (pc[s] = "recv" /\ ~client_gone[s]) =>
                Accepted(sess[s].doc) \ OwnUpdates(s)
                  \subseteq Snapshot(s) \cup UpdatesAfterSyncState(s)

\* C31: the registry the listener broadcasts on is the registry the
\* sessions attach to: every socket a session has attached is in the set
\* the listener of its replica fans a message for its document out to.
C31_ListenerSeesSessions ==
    \A s \in Sockets :
        pc[s] \in {"attached", "subscribed", "recv", "fold_read", "fold_write",
                   "publish"}
        => /\ ListenerManager(ReplicaOf(s)) = RouterManager(ReplicaOf(s))
           /\ s \in RegSnapshot(active_connections[ListenerManager(ReplicaOf(s))],
                                sess[s].doc)

\* C39: disconnect is idempotent: on every registry the service reaches, a
\* second disconnect(document_id, websocket) changes nothing, and a
\* disconnect of a socket or of a document that is not registered leaves
\* the registry as it is.  The operation has no raising path: it is total.
C39_DetachIdempotent ==
    \A m \in Managers, d \in DocIds, x \in AllSockets :
        LET reg == active_connections[m]
            once == RegDisconnect(reg, d, x)
        IN /\ RegDisconnect(once, d, x) = once
           /\ x \notin RegSnapshot(reg, d) => once = reg

\* A socket that was connected and disconnected, next to one that is still
\* registered: the next disconnect of the first one is a second call.
C39_Witness ==
    \E x, y \in MockSockets, d \in StoredDocs :
        /\ x # y
        /\ ReplicaOf(x) = ReplicaOf(y)
        /\ d \in attached[x]
        /\ x \notin RegSnapshot(active_connections[ListenerManager(ReplicaOf(x))], d)
        /\ y \in RegSnapshot(active_connections[ListenerManager(ReplicaOf(y))], d)
        /\ bcast[ReplicaOf(x)].pc = "idle"
        /\ ~client_gone[x]

\* C38: an envelope whose type is none of update, awareness, presence is
\* ignored: the step that reads it leaves the registries, the
\* subscriptions, the stored documents, the published messages and what
\* every socket was sent as they are, and the session is at the top of its
\* receive loop afterwards, still attached.
C38_UnknownTypeIgnored ==
    [][\A s \in Sockets :
         ("other" \in hist'[s].read /\ "other" \notin hist[s].read)
         => /\ pc[s] = "recv" /\ pc'[s] = "recv"
            /\ s \in RegSnapshot(active_connections'[RouterManager(ReplicaOf(s))],
                                 sess'[s].doc)
            /\ UNCHANGED <<active_connections, subscribed, store, published,
                           inbox, bcast, sent, sess, closed, folded>>]_vars

\* A session that read an envelope of an unknown type is folding the update
\* it read after it.
C38_Witness ==
    \E s \in Sockets :
        /\ "other" \in hist[s].read
        /\ pc[s] = "fold_write"
        /\ sess[s].msg.type = "update"

\* C37: a replica that takes an update envelope from the Pub/Sub channel
\* only broadcasts it: a step of a listener (a message leaves its
\* connection, or its broadcast moves on) changes no stored document, and
\* every change of a stored document is the write of one session folding
\* the update it received from its own client.
C37_ListenerNeverFolds ==
    [][/\ (\/ \E r \in Replicas :
                inbox[r] # <<>> /\ inbox'[r] = Tail(inbox[r])
           \/ bcast' # bcast)
          => store' = store /\ folded' = folded
       /\ store' # store
          => \E s \in Sockets :
               /\ pc[s] = "fold_write" /\ pc'[s] = "publish"
               /\ sess[s].msg.type = "update"
               /\ store' = [store EXCEPT
                    ![sess[s].doc].has_state = TRUE,
                    ![sess[s].doc].state =
                        NewState(sess[s].base, sess[s].msg.update),
                    ![sess[s].doc].content =
                        GetContent(NewState(sess[s].base, sess[s].msg.update))]
               /\ folded'[ReplicaOf(s)][sess[s].doc] =
                    folded[ReplicaOf(s)][sess[s].doc] \cup {sess[s].msg.update}]_vars

\* The listener of replica R1 has broadcast the update a session of replica
\* R2 folded, and the stored state does not hold it: the write of another
\* session replaced it, and the listener did not write it again.
C37_Witness ==
    \E x \in MockSockets :
        /\ ReplicaOf(x) = "R1"
        /\ \E e \in Range(sent[x]) : e.type = "update" /\ e.update = "u2"
        /\ "u2" \in folded["R2"][DocA]
        /\ "u2" \notin folded["R1"][DocA]
        /\ "u2" \notin store[DocA].state

\* C36: for one session, updates are folded and published in the order its
\* socket received them: when the session holds the second update of its
\* client, the first one has been folded and published, and the second is
\* neither folded nor published before the first; a session at the top of
\* its loop holds no frame.
C36_InboundOrder ==
    \A s \in ConvergeSockets :
        /\ sess[s].msg.update = "u2"
           => /\ "u1" \in folded[ReplicaOf(s)][sess[s].doc]
              /\ PublishedBy(s, "u1") \in published
        /\ "u2" \in folded[ReplicaOf(s)][DocA]
           => "u1" \in folded[ReplicaOf(s)][DocA]
        /\ PublishedBy(s, "u2") \in published
           => PublishedBy(s, "u1") \in published
        /\ pc[s] = "recv" => sess[s].msg = NoEnv

\* A session has folded and published both updates of its client.
C36_Witness ==
    \E s \in ConvergeSockets :
        /\ pc[s] = "recv"
        /\ {"u1", "u2"} \subseteq folded[ReplicaOf(s)][DocA]
        /\ {PublishedBy(s, "u1"), PublishedBy(s, "u2")} \subseteq published

\* C32: every session that is in its receive loop has its socket in the
\* registry set of its document, whatever sends of whatever broadcast have
\* failed.
C32_JoinedIsRegistered ==
    \A s \in Sockets :
        pc[s] = "recv" => s \in Registered(ReplicaOf(s), sess[s].doc)

\* A session is in its receive loop, its peer is gone, and a send of a
\* broadcast of its replica's listener has failed and detached a socket.
C32_Witness ==
    \E s \in Sockets :
        /\ pc[s] = "recv"
        /\ client_gone[s]
        /\ bcast[ReplicaOf(s)].failed # {}
        /\ bcast[ReplicaOf(s)].doc = sess[s].doc

\* A message leaves the connection of replica r's listener.
Taken(r) == inbox[r] # <<>> /\ inbox'[r] = Tail(inbox[r])

\* C34: the listener loop survives a message it raises on: it is never
\* stopped, a payload that is no JSON is taken from the connection and
\* counted, and every well-formed message taken, after an error as before
\* one, starts a broadcast to all the sockets its registry has for the
\* document.
C34_ListenerSurvives ==
    /\ [](\A r \in Replicas : bcast[r].pc \in {"idle", "sending"})
    /\ [][\A r \in Replicas :
            Taken(r) =>
              LET message == Head(inbox[r])
                  connections ==
                      RegSnapshot(active_connections[ListenerManager(r)],
                                  DocOfChannel(message.channel))
              IN IF IsJson(message.data)
                 THEN /\ bcast'[r].errors = bcast[r].errors
                      /\ bcast'[r].pending = connections
                      /\ connections # {} =>
                           /\ bcast'[r].pc = "sending"
                           /\ bcast'[r].data = message.data
                 ELSE /\ bcast'[r].errors = bcast[r].errors + 1
                      /\ bcast'[r].pc = "idle"]_vars

\* After a message it raised on, the listener has sent a later message to a
\* socket of its registry.
C34_Witness ==
    \E r \in Replicas, x \in MockSockets :
        /\ bcast[r].errors > 0
        /\ bcast[r].pc = "sending"
        /\ x \in bcast[r].snapshot \ (bcast[r].pending \cup bcast[r].failed)
        /\ sent[x] # <<>>
        /\ sent[x][Len(sent[x])] = bcast[r].data

\* The frames of sequence q that carry update item u.
Positions(q, u) == {i \in 1..Len(q) : q[i].type = "update" /\ q[i].update = u}

\* C35: per-channel order: the listener takes a message only when the
\* broadcast of the one before it has returned, and a socket that is sent
\* the two updates of the channel, published u1 before u2, is sent u1
\* before u2.
C35_ChannelFifo ==
    /\ [](\A x \in AllSockets :
            \A i \in Positions(sent[x], "u1"), j \in Positions(sent[x], "u2") :
                i < j)
    /\ [][\A r \in Replicas : Taken(r) => bcast[r].pc = "idle"]_vars

\* A socket has been sent both updates.
C35_Witness ==
    \E x \in MockSockets :
        Positions(sent[x], "u1") # {} /\ Positions(sent[x], "u2") # {}

\* C33: the stored content of a document is the text of its stored state,
\* after any sequence of create_document, PATCH with a content field, and
\* folds.
C33_ContentIsDerived ==
    ydocs.exists => ydocs.content = ManagerGetContent(NewManager(ydocs.state))

====
